---------------------------- MODULE Spec2Model ----------------------------
(***************************************************************************)
(* A model of airgradient-proxy's monitor.py: the Reading record, the      *)
(* averaging engine (Service.compute_avg), the sanity check                *)
(* (Service.is_sane), the event classification                             *)
(* (Service.compute_next_event), the JSON encoding and decoding            *)
(* (Service.convert_to_json, Service.parse_response), the sqlite store     *)
(* (class Database, with save_reading also statement by statement), the    *)
(* main loop (Service.do_loop) and the Reading objects its lists refer to. *)
(*                                                                         *)
(* Representation.  Every Python value a Reading field can hold is a       *)
(* record [kind, n, d, s]: kind is the Python type ("none", "float",       *)
(* "int", "str", "datetime"), n/d is the number as an exact fraction in    *)
(* lowest terms (d = 1 for an int; the rounding of IEEE doubles is not     *)
(* modelled), s is the text.  A datetime is a count n of clock ticks since *)
(* the epoch, TicksPerSec ticks to the second.  SQL values and JSON values *)
(* use the same record shape with their own kinds.                         *)
(***************************************************************************)
EXTENDS Integers, Sequences, FiniteSets, TLC

(***************************************************************************)
(* Bounds of the model.                                                    *)
(***************************************************************************)
\* resolution of the clock: ticks per second
TicksPerSec == 2
\* longest list handed to compute_avg
MaxReadings == 3

(***************************************************************************)
(* class Reading: the fields and their declared kinds.                     *)
(***************************************************************************)
FloatChannels ==
    {"wifi", "pm01", "pm02", "pm10", "pm02Compensated", "pm01Standard",
     "pm02Standard", "pm10Standard", "rco2", "pm003Count", "pm005Count",
     "pm01Count", "pm02Count", "pm50Count", "pm10Count", "atmp",
     "atmpCompensated", "rhum", "rhumCompensated", "tvocIndex", "tvocRaw",
     "noxIndex", "noxRaw"}

IntFields == {"boot", "bootCount"}

StrFields == {"serialno", "ledMode", "firmware", "model"}

Fields == FloatChannels \cup IntFields \cup StrFields

AllFields == Fields \cup {"measurementTime"}

\* Python values
None == [kind |-> "none", n |-> 0, d |-> 1, s |-> ""]

RECURSIVE GCD(_, _)
GCD(a, b) == IF b = 0 THEN a ELSE GCD(b, a % b)

Abs(x) == IF x < 0 THEN -x ELSE x

\* the fraction n/d in lowest terms with a positive denominator
Norm(n, d) ==
    LET g == GCD(Abs(n), Abs(d))
        sg == IF d < 0 THEN -1 ELSE 1
    IN  [n |-> sg * (n \div g), d |-> sg * (d \div g)]

Float(n, d) == [kind |-> "float", n |-> Norm(n, d).n, d |-> Norm(n, d).d, s |-> ""]

Int_(n) == [kind |-> "int", n |-> n, d |-> 1, s |-> ""]

Str(s) == [kind |-> "str", n |-> 0, d |-> 1, s |-> s]

\* a timezone-aware datetime, t ticks after the epoch
DateTime(t) == [kind |-> "datetime", n |-> t, d |-> 1, s |-> ""]

IsNumber(v) == v.kind \in {"float", "int"}

\* Python's x + y on numbers: int + int is an int, anything else a float
PyAdd(x, y) ==
    LET q == Norm(x.n * y.d + y.n * x.d, x.d * y.d)
    IN  [kind |-> IF x.kind = "int" /\ y.kind = "int" THEN "int" ELSE "float",
         n |-> q.n, d |-> q.d, s |-> ""]

\* Python's == on two field values: numbers by value (3 == 3.0), text by
\* content, datetimes by instant, None only to None
PyEq(x, y) ==
    CASE IsNumber(x) /\ IsNumber(y) -> x.n * y.d = y.n * x.d
      [] x.kind = "str" /\ y.kind = "str" -> x.s = y.s
      [] x.kind = "datetime" /\ y.kind = "datetime" -> x.n = y.n
      [] OTHER -> x.kind = "none" /\ y.kind = "none"

\* the dataclass's generated __eq__: field by field
ReadingEq(r1, r2) == \A f \in AllFields : PyEq(r1[f], r2[f])

\* no Reading (a variable not yet assigned)
NoReading == [f \in AllFields |-> None]

(***************************************************************************)
(* State.                                                                  *)
(***************************************************************************)
VARIABLES
    op,              \* the operation applied last
    now,             \* the wall clock, in ticks
    readings,        \* compute_avg: the list it is given
    avg_reading,     \* compute_avg: the Reading it returned
    reading,         \* is_sane, convert_to_json: the Reading they are given
    sane,            \* is_sane: the (bool, reason) it returned
    pollfreq_secs,   \* Service.pollfreq_secs
    pollfreq_offset, \* Service.pollfreq_offset
    arcint_secs,     \* Service.arcint_secs
    event,           \* compute_next_event: the Event it returned
    secs_to_event,   \* compute_next_event: the sleep it returned, in ticks
    response,        \* the JSON document convert_to_json produced
    decoded,         \* parse_response: what it returned or that it raised
    db,              \* the rows of table Reading in the database file
    saved,           \* save_reading: the Reading it was given
    raised,          \* save_reading: whether it raised
    query,           \* fetch_archive_readings: since_ts, max_ts and limit
    fetched,         \* fetch_readings: the Readings it yielded
    pc,              \* do_loop: the step the loop is at
    first_time,      \* do_loop: first_time
    session,         \* do_loop: session, None or the number of the Session
    sessions,        \* do_loop: how many times requests.Session() was called
    archive_readings,    \* do_loop: archive_readings
    two_minute_readings, \* do_loop: two_minute_readings
    cycle,           \* do_loop: what the steps of the current cycle did
    faults,          \* do_loop: how many fetches and writes have failed, and stalls
    config,          \* start: the options and the configuration file
    fs,              \* the file system: directories and database files
    proc,            \* start: how far the process got
    conn,            \* save_reading: its sqlite3 connection and transaction
    heap             \* the Reading objects and the lists that refer to them

avgVars == <<readings, avg_reading>>

saneVars == <<reading, sane>>

eventVars == <<pollfreq_secs, pollfreq_offset, arcint_secs, event, secs_to_event>>

jsonVars == <<response, decoded>>

storeVars == <<db, saved, raised, query, fetched>>

loopVars ==
    <<pc, first_time, session, sessions, archive_readings, two_minute_readings, cycle, faults>>

startVars == <<config, fs, proc>>

connVars == <<conn>>

heapVars == <<heap>>

vars ==
    <<op, now, avgVars, saneVars, eventVars, jsonVars, storeVars, loopVars, startVars,
      connVars, heapVars>>

(***************************************************************************)
(* Service.compute_avg                                                     *)
(***************************************************************************)
\* SumStep without the overwriting of the identity fields: they stay those
\* of the first element
SumStepKeepFirst(summed_reading, r) ==
    [f \in AllFields |->
        IF f \in FloatChannels
          THEN IF summed_reading[f].kind # "none" /\ r[f].kind # "none"
                 THEN PyAdd(summed_reading[f], r[f])
                 ELSE None
          ELSE summed_reading[f]]

\* SumStep that skips an absent value and sums the rest
SumStepSkipAbsent(summed_reading, r) ==
    [f \in AllFields |->
        IF f \in FloatChannels
          THEN IF summed_reading[f].kind # "none" /\ r[f].kind # "none"
                 THEN PyAdd(summed_reading[f], r[f])
                 ELSE IF r[f].kind # "none" THEN r[f] ELSE summed_reading[f]
          ELSE r[f]]

\* one iteration of the loop over readings[1:]
SumStep(summed_reading, r) ==
    [f \in AllFields |->
        IF f \in FloatChannels
          THEN IF summed_reading[f].kind # "none" /\ r[f].kind # "none"
                 THEN PyAdd(summed_reading[f], r[f])
                 ELSE None
          ELSE r[f]]

RECURSIVE SumLoop(_, _, _)
SumLoop(summed_reading, rs, i) ==
    IF i > Len(rs) THEN summed_reading
    ELSE SumLoop(SumStep(summed_reading, rs[i]), rs, i + 1)

\* the list is not empty (readings[0] raises IndexError on an empty one)
compute_avg(rs) ==
    LET summed_reading == SumLoop(rs[1], rs, 2)
        count == Len(rs)
    IN  [f \in AllFields |->
            IF f \in FloatChannels
              THEN IF summed_reading[f].kind # "none"
                     \* x / count with count = float(len(readings)): a float
                     THEN Float(summed_reading[f].n, summed_reading[f].d * count)
                     ELSE None
              ELSE summed_reading[f]]

(***************************************************************************)
(* Readings the checks draw from.  TestReading is test_compute_avg's       *)
(* reading1 with the identity fields of create_test_reading; the fields    *)
(* that vary are the time, wifi, pm01 and the identity fields.             *)
(***************************************************************************)
BaseChannels ==
    [f \in FloatChannels |->
        CASE f = "wifi" -> Float(-71, 1)
          [] f = "pm01" -> Float(325, 1)
          [] f = "pm02" -> Float(221, 1)
          [] f = "pm10" -> Float(410, 1)
          [] f = "pm02Compensated" -> Float(201, 1)
          [] f = "pm01Standard" -> Float(340, 1)
          [] f = "pm02Standard" -> Float(246, 1)
          [] f = "pm10Standard" -> Float(612, 1)
          [] f = "rco2" -> Float(746, 1)
          [] f = "pm003Count" -> Float(112, 1)
          [] f = "pm005Count" -> Float(356, 1)
          [] f = "pm01Count" -> Float(643, 1)
          [] f = "pm02Count" -> Float(331, 1)
          [] f = "pm50Count" -> Float(123, 1)
          [] f = "pm10Count" -> Float(432, 1)
          [] f = "atmp" -> Float(205, 10)
          [] f = "atmpCompensated" -> Float(195, 10)
          [] f = "rhum" -> Float(642, 10)
          [] f = "rhumCompensated" -> Float(602, 10)
          [] f = "tvocIndex" -> Float(7, 1)
          [] f = "tvocRaw" -> Float(4, 1)
          [] f = "noxIndex" -> Float(12, 1)
          [] f = "noxRaw" -> Float(10, 1)]

\* identity fields: 1 is an AirGradient One (create_test_reading), 2 an
\* Open Air, whose ledMode is absent
Identity(k) ==
    [f \in IntFields \cup StrFields |->
        CASE f = "serialno" -> IF k = 1 THEN Str("000000000000") ELSE Str("84fce612f5b8")
          [] f = "ledMode" -> IF k = 1 THEN Str("pm") ELSE None
          [] f = "firmware" -> IF k = 1 THEN Str("3.3.7") ELSE Str("3.3.9")
          [] f = "model" -> IF k = 1 THEN Str("I-9PSL") ELSE Str("O-1PST")
          [] f = "boot" -> IF k = 1 THEN Int_(14) ELSE Int_(3)
          [] f = "bootCount" -> IF k = 1 THEN Int_(14) ELSE None]

TestReading(t, wifi, pm01, k) ==
    [f \in AllFields |->
        CASE f = "measurementTime" -> DateTime(t)
          [] f = "wifi" -> wifi
          [] f = "pm01" -> pm01
          [] f \in FloatChannels \ {"wifi", "pm01"} -> BaseChannels[f]
          [] OTHER -> Identity(k)[f]]

\* a time of day the samples are taken at, in ticks
T0 == 1000 * TicksPerSec

\* the sample k (1 or 2) is taken 15 seconds after the sample k - 1
AvgPool ==
    { TestReading(T0 + (k - 1) * 15 * TicksPerSec, w, p, k) :
        w \in {None, Float(-71, 1), Float(-72, 1)},
        p \in {None, Float(325, 1)},
        k \in {1, 2} }

(***************************************************************************)
(* The variables a specification does not use keep these values.           *)
(***************************************************************************)
NoQuery == [since_ts |-> 0, max_ts |-> None, limit |-> None]

NoFaults == [fetch |-> 0, write |-> 0, stall |-> 0]

NoCycle ==
    [event |-> "none", boundary |-> 0, slept |-> "none", created |-> FALSE, fetch |-> "none",
     reading |-> NoReading, close |-> "none", current |-> "none",
     two_minute |-> "none", archive |-> "none"]

\* no path: the configuration file has no database-file
NoPath == [dir |-> "", name |-> ""]

\* used names the groups of variables a specification sets itself
Idle(used) ==
    /\ IF "avg" \in used THEN TRUE
       ELSE readings = <<>> /\ avg_reading = NoReading
    /\ IF "sane" \in used THEN TRUE
       ELSE reading = NoReading /\ sane = [sane |-> FALSE, reason |-> <<"unset">>]
    /\ IF "event" \in used THEN TRUE
       ELSE /\ pollfreq_secs = 30
            /\ pollfreq_offset = 0
            /\ arcint_secs = 300
            /\ event = "none"
            /\ secs_to_event = 0
    /\ IF "json" \in used THEN TRUE
       ELSE response = << >> /\ decoded = [raised |-> FALSE, r |-> NoReading]
    /\ IF "store" \in used THEN TRUE
       ELSE /\ db = {}
            /\ saved = NoReading
            /\ raised = FALSE
            /\ query = NoQuery
            /\ fetched = << >>
    /\ IF "loop" \in used THEN TRUE
       ELSE /\ pc = "idle"
            /\ first_time = TRUE
            /\ session = 0
            /\ sessions = 0
            /\ archive_readings = << >>
            /\ two_minute_readings = << >>
            /\ cycle = NoCycle
            /\ faults = NoFaults
    /\ IF "start" \in used THEN TRUE
       ELSE /\ config = [test |-> FALSE, dump |-> FALSE, hostname |-> "",
                         database_file |-> NoPath, pollfreq_secs |-> 30,
                         arcint_secs |-> 300]
            /\ fs = [dirs |-> {}, files |-> {}]
            /\ proc = [at |-> "idle", error |-> "", db_file |-> NoPath, served |-> FALSE]
    \* no call of save_reading under way
    /\ IF "conn" \in used THEN TRUE
       ELSE conn = [at |-> "closed", record_type |-> 0, r |-> NoReading, rows |-> {},
                    before |-> {}, in_transaction |-> FALSE, deleted |-> FALSE]
    \* no object allocated, both lists empty
    /\ IF "heap" \in used THEN TRUE
       ELSE heap = [objects |-> << >>, as_appended |-> << >>,
                    archive_readings |-> << >>, two_minute_readings |-> << >>,
                    avg_reading |-> 0]

(***************************************************************************)
(* SpecAvg: compute_avg applied to a list of Readings.                     *)
(***************************************************************************)
InitAvg ==
    /\ op = "init"
    /\ now = T0
    /\ readings \in (UNION { [1..k -> AvgPool] : k \in 1..MaxReadings })
    /\ avg_reading = NoReading
    /\ Idle({"avg"})

ComputeAvg ==
    /\ Len(readings) > 0
    /\ op' = "compute_avg"
    /\ avg_reading' = compute_avg(readings)
    /\ UNCHANGED <<loopVars, startVars, connVars, heapVars, now, readings, saneVars, eventVars, jsonVars, storeVars>>

NextAvg == ComputeAvg

SpecAvg == InitAvg /\ [][NextAvg]_vars

\* the sum of channel c over rs[1..i], as a fraction in lowest terms
RECURSIVE ChannelSum(_, _, _)
ChannelSum(rs, c, i) ==
    IF i = 0 THEN [n |-> 0, d |-> 1]
    ELSE LET rest == ChannelSum(rs, c, i - 1)
         IN  Norm(rest.n * rs[i][c].d + rs[i][c].n * rest.d, rest.d * rs[i][c].d)

PresentInAll(rs, c) == \A i \in 1..Len(rs) : rs[i][c].kind # "none"

IsMean(v, rs, c) ==
    /\ v.kind = "float"
    /\ v.n * Len(rs) * ChannelSum(rs, c, Len(rs)).d = v.d * ChannelSum(rs, c, Len(rs)).n

\* C1: compute_avg on a non-empty list: every numeric channel present in
\* every element is the sum of the channel over the list divided by the
\* length of the list; serialno, ledMode, firmware, model, boot, bootCount
\* and measurementTime are those of the last element.
C1_AvgIsMeanAndLast ==
    op = "compute_avg" =>
        /\ \A c \in FloatChannels :
              PresentInAll(readings, c) => IsMean(avg_reading[c], readings, c)
        /\ \A f \in AllFields \ FloatChannels :
              avg_reading[f] = readings[Len(readings)][f]

C1_Witness ==
    /\ op = "compute_avg"
    /\ Len(readings) = 2
    /\ readings[1].wifi = Float(-71, 1)
    /\ readings[2].wifi = Float(-72, 1)
    /\ avg_reading.wifi = Float(-143, 2)
    /\ avg_reading.pm01Standard = Float(340, 1)
    /\ readings[1].model # readings[2].model
    /\ avg_reading.measurementTime = DateTime(T0 + 15 * TicksPerSec)

\* C2: compute_avg: a numeric channel absent in any element of the list
\* (first, middle or last) is absent in the result, and the absence of one
\* channel leaves the average of every other channel what it is.
C2_AbsentPropagates ==
    op = "compute_avg" =>
        \A c \in FloatChannels :
            ~PresentInAll(readings, c) =>
                /\ avg_reading[c] = None
                /\ \A c2 \in FloatChannels \ {c} :
                      PresentInAll(readings, c2) =>
                          IsMean(avg_reading[c2], readings, c2)

C2_Witness ==
    /\ op = "compute_avg"
    /\ Len(readings) = 3
    /\ readings[1].wifi = Float(-71, 1)
    /\ readings[2].wifi = None
    /\ readings[3].wifi = Float(-72, 1)
    /\ PresentInAll(readings, "pm01")
    /\ avg_reading.wifi = None
    /\ avg_reading.pm01 = Float(325, 1)

(***************************************************************************)
(* Service.is_sane                                                         *)
(***************************************************************************)
SaneWindowSecs == 20

DeclaredKind(f) ==
    IF f \in FloatChannels THEN "float"
    ELSE IF f \in IntFields THEN "int" ELSE "str"

\* the isinstance checks with the text fields after the numeric ones
SaneOrderNumericFirst ==
    <<"wifi", "pm01", "pm02", "pm10", "pm02Compensated",
      "pm01Standard", "pm02Standard", "pm10Standard", "rco2", "pm003Count",
      "pm005Count", "pm01Count", "pm02Count", "pm50Count", "pm10Count",
      "atmp", "atmpCompensated", "rhum", "rhumCompensated", "tvocIndex",
      "tvocRaw", "noxIndex", "noxRaw", "boot", "bootCount", "serialno",
      "ledMode", "firmware", "model">>

\* the order of the isinstance checks
SaneOrder ==
    <<"serialno", "wifi", "pm01", "pm02", "pm10", "pm02Compensated",
      "pm01Standard", "pm02Standard", "pm10Standard", "rco2", "pm003Count",
      "pm005Count", "pm01Count", "pm02Count", "pm50Count", "pm10Count",
      "atmp", "atmpCompensated", "rhum", "rhumCompensated", "tvocIndex",
      "tvocRaw", "noxIndex", "noxRaw", "boot", "bootCount", "ledMode",
      "firmware", "model">>

\* abs(delta_seconds) >= 20.0: the bound itself rejected
TooFarOffAtBound(delta) == Abs(delta) >= SaneWindowSecs * TicksPerSec

\* abs(delta_seconds) > 20.0, delta in ticks
TooFarOff(delta) == Abs(delta) > SaneWindowSecs * TicksPerSec

\* t is what Service.utc_now() returns inside the call
is_sane(r, t) ==
    IF r.measurementTime.kind # "datetime"
      THEN [sane |-> FALSE, reason |-> <<"measurementTime not instance of datetime">>]
    ELSE IF TooFarOff(t - r.measurementTime.n)
      THEN [sane |-> FALSE, reason |-> <<"measurementTime more than 20s off">>]
    \* x is not None and not isinstance(x, <declared kind of the field>)
    ELSE LET bad == {i \in 1..Len(SaneOrder) :
                        /\ r[SaneOrder[i]].kind # "none"
                        /\ r[SaneOrder[i]].kind # DeclaredKind(SaneOrder[i])}
         IN  IF bad = {}
               THEN [sane |-> TRUE, reason |-> << >>]
               ELSE LET i == CHOOSE j \in bad : \A k \in bad : j <= k
                    IN  [sane |-> FALSE,
                         reason |-> <<SaneOrder[i], "not instance of", DeclaredKind(SaneOrder[i])>>]

(***************************************************************************)
(* Service.compute_next_event                                              *)
(***************************************************************************)
\* the multiple of period at or after t: a time on the grid is its own
\* next event
NextMultipleAtOrAfter(t, period) ==
    ((t + period * TicksPerSec - 1) \div (period * TicksPerSec)) * period

\* int(now / period) * period + period, in seconds; t = now in ticks
NextMultiple(t, period) ==
    (t \div (period * TicksPerSec)) * period + period

\* the sleep without the poll offset
ComputeNextEventNoOffset(t, pollfreq, offset, arcint) ==
    LET next_poll_event == NextMultiple(t, pollfreq)
        next_arc_event == NextMultiple(t, arcint)
    IN  [event |-> IF next_poll_event = next_arc_event THEN "ARCHIVE" ELSE "POLL",
         secs_to_event |-> next_poll_event * TicksPerSec - t]

\* the first_time parameter is not read
compute_next_event(t, pollfreq, offset, arcint) ==
    LET next_poll_event == NextMultiple(t, pollfreq)
        next_arc_event == NextMultiple(t, arcint)
    IN  [event |-> IF next_poll_event = next_arc_event THEN "ARCHIVE" ELSE "POLL",
         secs_to_event |-> next_poll_event * TicksPerSec - t + offset * TicksPerSec]

(***************************************************************************)
(* Service.convert_to_json and Service.parse_response.  A JSON value is a  *)
(* record of the same shape, of kind "null", "int", "real" or "string"; a  *)
(* JSON object is a function from its keys.                                *)
(***************************************************************************)
JNull == [kind |-> "null", n |-> 0, d |-> 1, s |-> ""]

\* texts of the model that Python's float() and sqlite read as a number
\* (all of them as the number 0)
NumericTexts == {"000000000000"}

\* json.dumps of a field value, None written as the number 0
ToJsonNoneAsZero(v) ==
    CASE v.kind = "none" -> [kind |-> "int", n |-> 0, d |-> 1, s |-> ""]
      [] v.kind = "float" -> [kind |-> "real", n |-> v.n, d |-> v.d, s |-> ""]
      [] v.kind = "int" -> [kind |-> "int", n |-> v.n, d |-> 1, s |-> ""]
      [] v.kind = "str" -> [kind |-> "string", n |-> 0, d |-> 1, s |-> v.s]

\* json.dumps of a field value
ToJson(v) ==
    CASE v.kind = "none" -> JNull
      [] v.kind = "float" -> [kind |-> "real", n |-> v.n, d |-> v.d, s |-> ""]
      [] v.kind = "int" -> [kind |-> "int", n |-> v.n, d |-> 1, s |-> ""]
      [] v.kind = "str" -> [kind |-> "string", n |-> 0, d |-> 1, s |-> v.s]

\* measurementTime.strftime('%Y-%m-%dT%H:%M:%S.%fZ') is the instant to the
\* microsecond, as text
convert_to_json(r) ==
    [k \in AllFields |->
        IF k = "measurementTime"
          THEN [kind |-> "string", n |-> r[k].n, d |-> 1, s |-> "%Y-%m-%dT%H:%M:%S.%fZ"]
          ELSE ToJson(r[k])]

\* json.loads of a value
FromJson(j) ==
    CASE j.kind = "null" -> None
      [] j.kind = "int" -> Int_(j.n)
      [] j.kind = "real" -> Float(j.n, j.d)
      [] j.kind = "string" -> Str(j.s)

\* float(x) raises on a text that is no number
CanFloat(v) == IsNumber(v) \/ (v.kind = "str" /\ v.s \in NumericTexts)

\* float(x)
PyFloat(v) == IF v.kind = "str" THEN Float(0, 1) ELSE Float(v.n, v.d)

\* resp is the JSON object response.json() returns, t what Service.utc_now()
\* returns inside the call
parse_response(resp, t) ==
    IF ~(Fields \subseteq DOMAIN resp)
      THEN [raised |-> TRUE, r |-> NoReading]
    ELSE IF \E c \in FloatChannels : resp[c].kind # "null" /\ ~CanFloat(FromJson(resp[c]))
      THEN [raised |-> TRUE, r |-> NoReading]
    ELSE [raised |-> FALSE,
          r |-> [f \in AllFields |->
                    IF f = "measurementTime" THEN DateTime(t)
                    ELSE IF f \in FloatChannels
                      THEN IF resp[f].kind # "null" THEN PyFloat(FromJson(resp[f])) ELSE None
                    ELSE FromJson(resp[f])]]

(***************************************************************************)
(* SpecSane: is_sane applied to a Reading taken up to MaxSkewSecs before   *)
(* or after the current time, with fields of their declared kind, absent,  *)
(* or of another kind.                                                     *)
(***************************************************************************)
MaxSkewSecs == 22

SanePool ==
    { [TestReading(T0 + dt, w, Float(325, 1), 1) EXCEPT
            !.boot = b, !.ledMode = l, !.serialno = s] :
        dt \in (-(MaxSkewSecs * TicksPerSec))..(MaxSkewSecs * TicksPerSec),
        w \in {None, Float(-71, 1), Int_(-71)},
        b \in {None, Int_(14), Float(14, 1)},
        l \in {Str("pm"), Int_(0)},
        s \in {Str("000000000000"), Int_(0)} }

InitSane ==
    /\ op = "init"
    /\ now = T0
    /\ reading \in SanePool
    /\ sane = [sane |-> FALSE, reason |-> <<"unset">>]
    /\ Idle({"sane"})

IsSane ==
    /\ op' = "is_sane"
    /\ sane' = is_sane(reading, now)
    /\ UNCHANGED <<loopVars, startVars, connVars, heapVars, now, reading, avgVars, eventVars, jsonVars, storeVars>>

NextSane == IsSane

SpecSane == InitSane /\ [][NextSane]_vars

WellTyped(r) ==
    /\ r.measurementTime.kind = "datetime"
    /\ \A f \in FloatChannels : r[f].kind \in {"none", "float"}
    /\ \A f \in IntFields : r[f].kind \in {"none", "int"}
    /\ \A f \in StrFields : r[f].kind \in {"none", "str"}

\* C3: is_sane rejects every Reading whose measurementTime is more than 20
\* seconds from the current time, before or after, and accepts every Reading
\* at most 20 seconds off (20 included) whose present fields have their
\* declared kind.
C3_SaneWindow ==
    op = "is_sane" =>
        /\ Abs(now - reading.measurementTime.n) > 20 * TicksPerSec => ~sane.sane
        /\ (Abs(now - reading.measurementTime.n) <= 20 * TicksPerSec /\ WellTyped(reading))
              => sane.sane

C3_Witness ==
    /\ op = "is_sane"
    /\ reading.measurementTime.n - now = 20 * TicksPerSec
    /\ reading.wifi = None
    /\ WellTyped(reading)
    /\ sane.sane

(***************************************************************************)
(* SpecEvent: compute_next_event called at any time of a span of           *)
(* MaxSpanSecs seconds, with the default intervals of start() (poll 30 s,  *)
(* archive 300 s) and an offset.                                           *)
(***************************************************************************)
MaxSpanSecs == 660

PollOffsets == {-5, 0, 5}

InitEvent ==
    /\ op = "init"
    /\ now \in T0..(T0 + MaxSpanSecs * TicksPerSec)
    /\ pollfreq_secs = 30
    /\ pollfreq_offset \in PollOffsets
    /\ arcint_secs = 300
    /\ event = "none"
    /\ secs_to_event = 0
    /\ Idle({"event"})

ComputeNextEvent ==
    /\ op' = "compute_next_event"
    /\ event' = compute_next_event(now, pollfreq_secs, pollfreq_offset, arcint_secs).event
    /\ secs_to_event' =
          compute_next_event(now, pollfreq_secs, pollfreq_offset, arcint_secs).secs_to_event
    /\ UNCHANGED <<loopVars, startVars, connVars, heapVars, now, pollfreq_secs, pollfreq_offset, arcint_secs, avgVars, saneVars, jsonVars,
                   storeVars>>

NextEvent == ComputeNextEvent

SpecEvent == InitEvent /\ [][NextEvent]_vars

\* t, in ticks, is a whole number of seconds divisible by k
DivisibleBy(t, k) == t % (k * TicksPerSec) = 0

\* the smallest multiple of period (seconds) strictly greater than t (ticks)
BoundaryAfter(t, period) ==
    CHOOSE b \in 0..((t \div TicksPerSec) + period) :
        /\ b % period = 0
        /\ b * TicksPerSec > t
        /\ \A c \in 0..((t \div TicksPerSec) + period) :
              (c % period = 0 /\ c * TicksPerSec > t) => b <= c

\* C6 as claimed: with poll 30 s and archive 300 s, a call at a time
\* divisible by 300 returns ARCHIVE, and a call at a time divisible by 30
\* and not by 300 returns POLL.
C6_Claimed ==
    (op = "compute_next_event" /\ pollfreq_secs = 30 /\ arcint_secs = 300) =>
        /\ DivisibleBy(now, 300) => event = "ARCHIVE"
        /\ (DivisibleBy(now, 30) /\ ~DivisibleBy(now, 300)) => event = "POLL"

\* C6 as amended: with poll 30 s and archive 300 s, a call at time t returns
\* ARCHIVE exactly when the next poll boundary, the smallest multiple of 30
\* strictly greater than t, is divisible by 300, and POLL otherwise; so a
\* call at a time divisible by 300 returns POLL, and of the times divisible
\* by 30 and not by 300 the one 30 seconds before a multiple of 300 returns
\* ARCHIVE and the others POLL.
C6_NextBoundaryClassified ==
    (op = "compute_next_event" /\ pollfreq_secs = 30 /\ arcint_secs = 300) =>
        /\ event = "ARCHIVE" <=> BoundaryAfter(now, 30) % 300 = 0
        /\ event = "POLL" <=> BoundaryAfter(now, 30) % 300 # 0
        /\ DivisibleBy(now, 300) => event = "POLL"
        /\ (DivisibleBy(now, 30) /\ ~DivisibleBy(now, 300)) =>
              (event = "ARCHIVE" <=> DivisibleBy(now + 30 * TicksPerSec, 300))

C6_Witness ==
    /\ op = "compute_next_event"
    /\ now = 1170 * TicksPerSec
    /\ event = "ARCHIVE"
    /\ secs_to_event = (30 + pollfreq_offset) * TicksPerSec

(***************************************************************************)
(* SpecJson: a Reading with any of four optional fields absent is encoded  *)
(* by convert_to_json, and the document is decoded by parse_response at    *)
(* the same or a later time.                                               *)
(***************************************************************************)
MaxTicks == 3

\* the fields whose presence varies: a channel, a boot counter, a text
\* field and the serial number
Optionals == {"wifi", "boot", "ledMode", "serialno"}

\* create_test_reading gives pm02Compensated the int 0
PatternReading(t, absent) ==
    [f \in AllFields |->
        IF f \in absent THEN None
        ELSE IF f = "pm02Compensated" THEN Int_(0)
        ELSE TestReading(t, Float(-71, 1), Float(325, 1), 1)[f]]

InitJson ==
    /\ op = "init"
    /\ now = T0
    \* taken at the time the check starts at, or a tick before
    /\ reading \in { PatternReading(t, absent) : t \in {T0 - 1, T0},
                                                 absent \in SUBSET Optionals }
    /\ sane = [sane |-> FALSE, reason |-> <<"unset">>]
    /\ Idle({"sane"})

\* time passes between the encoding and the decoding
Tick ==
    /\ op # "parse_response"
    /\ now < T0 + MaxTicks
    /\ now' = now + 1
    /\ UNCHANGED <<loopVars, startVars, connVars, heapVars, op, avgVars, saneVars, eventVars, jsonVars, storeVars>>

ConvertToJson ==
    /\ op' = "convert_to_json"
    /\ response' = convert_to_json(reading)
    /\ decoded' = [raised |-> FALSE, r |-> NoReading]
    /\ UNCHANGED <<loopVars, startVars, connVars, heapVars, now, avgVars, saneVars, eventVars, storeVars>>

ParseResponse ==
    /\ op \in {"convert_to_json", "parse_response"}
    /\ op' = "parse_response"
    /\ decoded' = parse_response(response, now)
    /\ UNCHANGED <<loopVars, startVars, connVars, heapVars, now, response, avgVars, saneVars, eventVars, storeVars>>

NextJson == Tick \/ ConvertToJson \/ ParseResponse

SpecJson == InitJson /\ [][NextJson]_vars

\* C9 as claimed: decoding the JSON that encodes a Reading r yields a
\* Reading equal to r, measurementTime included.
C9_Claimed ==
    op = "parse_response" => (~decoded.raised /\ ReadingEq(decoded.r, reading))

\* C9 as amended: decoding the JSON that encodes a Reading r yields a
\* Reading equal to r in every field other than measurementTime, an absent
\* field absent and a present one with its value; its measurementTime is the
\* time of the decoding, not r's.
C9_RoundTripButTime ==
    op = "parse_response" =>
        /\ ~decoded.raised
        /\ \A f \in Fields :
              /\ PyEq(decoded.r[f], reading[f])
              /\ decoded.r[f].kind = "none" <=> reading[f].kind = "none"
        /\ decoded.r.measurementTime = DateTime(now)

C9_Witness ==
    /\ op = "parse_response"
    /\ reading.wifi = None
    /\ reading.ledMode = None
    /\ reading.boot = Int_(14)
    /\ decoded.r.wifi = None
    /\ decoded.r.boot = Int_(14)
    /\ decoded.r.measurementTime.n > reading.measurementTime.n

(***************************************************************************)
(* class Database: table Reading of the sqlite file.  A row is             *)
(* [record_type, timestamp, cols]: timestamp in ticks, cols the SQL value  *)
(* of each column, a record of the same shape as a Python value, of kind   *)
(* "NULL", "INTEGER", "REAL" or "TEXT" (sqlite's storage classes).         *)
(***************************************************************************)
CURRENT == 0

ARCHIVE == 1

TWO_MINUTE == 2

\* the declared type of each column of CREATE TABLE Reading
Affinity(f) ==
    IF f \in FloatChannels THEN "REAL"
    ELSE IF f \in IntFields THEN "INTEGER" ELSE "TEXT"

\* What the INSERT statement holds for a field: the text of
\* '%r' % (x if x is not None else 'NULL').  %r of a float or an int is a
\* numeric literal; %r of a str is the str in quotes, a string literal, and
\* so is %r of the str 'NULL' that stands for None.  (Texts holding a quote
\* or a backslash are not drawn.)
SqlLiteral(v) ==
    CASE v.kind = "none" -> [kind |-> "TEXT", n |-> 0, d |-> 1, s |-> "NULL"]
      [] v.kind = "str" -> [kind |-> "TEXT", n |-> 0, d |-> 1, s |-> v.s]
      [] v.kind = "float" -> [kind |-> "REAL", n |-> v.n, d |-> v.d, s |-> ""]
      [] v.kind = "int" -> [kind |-> "INTEGER", n |-> v.n, d |-> 1, s |-> ""]

\* sqlite's column affinity applied to an inserted value
ApplyAffinity(v, aff) ==
    CASE aff = "REAL" /\ v.kind = "INTEGER" -> [v EXCEPT !.kind = "REAL"]
      [] aff = "REAL" /\ v.kind = "TEXT" /\ v.s \in NumericTexts ->
            [kind |-> "REAL", n |-> 0, d |-> 1, s |-> ""]
      [] aff = "INTEGER" /\ v.kind = "REAL" /\ v.d = 1 -> [v EXCEPT !.kind = "INTEGER"]
      [] aff = "INTEGER" /\ v.kind = "TEXT" /\ v.s \in NumericTexts ->
            [kind |-> "INTEGER", n |-> 0, d |-> 1, s |-> ""]
      [] aff = "TEXT" /\ v.kind \in {"INTEGER", "REAL"} ->
            [v EXCEPT !.kind = "TEXT", !.s = "digits"]
      [] OTHER -> v

\* the row the INSERT statement of save_reading inserts; the timestamp is
\* written with %f, to the microsecond
InsertRow(record_type, r) ==
    [record_type |-> record_type,
     timestamp |-> r.measurementTime.n,
     cols |-> [f \in Fields |-> ApplyAffinity(SqlLiteral(r[f]), Affinity(f))]]

\* save_reading without its DELETE statements
AfterDeleteNothing(d, record_type) == d

\* DELETE FROM Reading, without the WHERE clause
AfterDeleteEveryType(d, record_type) ==
    IF record_type \in {CURRENT, TWO_MINUTE} THEN {} ELSE d

\* DELETE FROM Reading where record_type = CURRENT (or TWO_MINUTE)
AfterDelete(d, record_type) ==
    IF record_type \in {CURRENT, TWO_MINUTE}
      THEN {x \in d : x.record_type # record_type}
      ELSE d

\* an INSERT that replaces the row holding the key: never a conflict
KeyNeverTaken(d, row) == FALSE

\* PRIMARY KEY (record_type, timestamp): the INSERT raises IntegrityError
KeyTaken(d, row) ==
    \E x \in d : x.record_type = row.record_type /\ x.timestamp = row.timestamp

\* save_reading on the rows d.  io_error: sqlite raises OperationalError
\* (the file is locked for longer than the timeout, or cannot be written).
\* The statements run in the transaction the sqlite3 module opens before
\* the first of them; the connection's context manager commits it when the
\* block ends and rolls it back when the block raises.
save_reading(d, record_type, r, io_error) ==
    LET row == InsertRow(record_type, r)
        kept == AfterDelete(d, record_type)
    IN  IF io_error \/ KeyTaken(kept, row)
          THEN [raised |-> TRUE, db |-> d]
          ELSE [raised |-> FALSE, db |-> kept \cup {row}]

\* what the sqlite3 module returns for a column
FromSql(v) ==
    CASE v.kind = "NULL" -> None
      [] v.kind = "INTEGER" -> Int_(v.n)
      [] v.kind = "REAL" -> Float(v.n, v.d)
      [] v.kind = "TEXT" -> Str(v.s)

create_reading_from_row(row) ==
    [f \in AllFields |->
        IF f = "measurementTime" THEN DateTime(row.timestamp) ELSE FromSql(row.cols[f])]

\* timestamp >= since_ts: the row at since_ts itself selected
AfterSinceInclusive(ts, since_ts) == ts >= since_ts * TicksPerSec

\* timestamp > %d, since_ts in seconds
AfterSince(ts, since_ts) == ts > since_ts * TicksPerSec

\* ORDER BY timestamp, record_type: the rows in ascending order
RECURSIVE OrderByTimestamp(_)
OrderByTimestamp(rows) ==
    IF rows = {} THEN << >>
    ELSE LET first == CHOOSE x \in rows :
                        \A y \in rows :
                            \/ x.timestamp < y.timestamp
                            \/ (x.timestamp = y.timestamp /\ x.record_type <= y.record_type)
         IN  <<first>> \o OrderByTimestamp(rows \ {first})

\* LIMIT %d, when limit is not None; sqlite reads a negative LIMIT as none
Limited(rows, limit) ==
    IF limit.kind = "none" \/ limit.n < 0 \/ limit.n >= Len(rows)
      THEN rows
      ELSE SubSeq(rows, 1, limit.n)

\* the Readings the generator yields, in order
fetch_readings(d, record_type, since_ts, max_ts, limit) ==
    LET selected == {x \in d : /\ x.record_type = record_type
                               /\ AfterSince(x.timestamp, since_ts)
                               /\ (max_ts.kind = "none" \/ x.timestamp <= max_ts.n * TicksPerSec)}
        rows == Limited(OrderByTimestamp(selected), limit)
    IN  [i \in 1..Len(rows) |-> create_reading_from_row(rows[i])]

fetch_current_readings(d) == fetch_readings(d, CURRENT, 0, None, None)

\* the two minute fetch reading the rows of type CURRENT
FetchTwoMinuteAsCurrent(d) == fetch_readings(d, CURRENT, 0, None, None)

fetch_two_minute_readings(d) == fetch_readings(d, TWO_MINUTE, 0, None, None)

fetch_archive_readings(d, since_ts, max_ts, limit) ==
    fetch_readings(d, ARCHIVE, since_ts, max_ts, limit)

\* the JSON object {}
EmptyObject == << >>

\* for reading in self.fetch_current_readings(): return convert_to_json(reading)
\* return '{}'
fetch_current_reading_as_json(d) ==
    IF Len(fetch_current_readings(d)) = 0
      THEN EmptyObject
      ELSE convert_to_json(fetch_current_readings(d)[1])

fetch_two_minute_reading_as_json(d) ==
    IF Len(fetch_two_minute_readings(d)) = 0
      THEN EmptyObject
      ELSE convert_to_json(fetch_two_minute_readings(d)[1])

\* the earliest timestamp of the rows of any type
EarliestOfAnyType(d) ==
    IF d = {} THEN EmptyObject
    ELSE [k \in {"timestamp"} |->
            ToJson(Float(OrderByTimestamp(d)[1].timestamp, TicksPerSec))]

\* SELECT timestamp FROM Reading WHERE record_type = ARCHIVE ORDER BY
\* timestamp LIMIT 1; resp['timestamp'] = row[0] for the row if there is
\* one; dumps(resp).  The timestamp column is REAL: a number of seconds.
get_earliest_timestamp_as_json(d) ==
    LET rows == OrderByTimestamp({x \in d : x.record_type = ARCHIVE})
    IN  IF Len(rows) = 0 THEN EmptyObject
        ELSE [k \in {"timestamp"} |-> ToJson(Float(rows[1].timestamp, TicksPerSec))]

(***************************************************************************)
(* Spec: a Database created empty, on which the save and fetch methods are *)
(* called in any order.  The Readings saved as ARCHIVE are taken at one of  *)
(* three times a tick or a second apart and have all their fields or none  *)
(* of the optional ones; those saved as CURRENT or TWO_MINUTE are two of   *)
(* them.  At most MaxArchiveRows ARCHIVE rows are stored.                  *)
(***************************************************************************)
MaxArchiveRows == 2

StorePool ==
    { PatternReading(t, absent) : t \in {T0, T0 + 1, T0 + TicksPerSec},
                                  absent \in {{}, Optionals} }

\* the Readings saved as CURRENT and as TWO_MINUTE
LivePool == {PatternReading(T0, {}), PatternReading(T0 + 1, Optionals)}

RowsOf(d, record_type) == {x \in d : x.record_type = record_type}

Init ==
    /\ op = "create"
    /\ now = T0
    /\ Idle({})

Save(name, record_type, r, io_error) ==
    /\ op' = name
    /\ saved' = r
    /\ raised' = save_reading(db, record_type, r, io_error).raised
    /\ db' = save_reading(db, record_type, r, io_error).db
    /\ query' = NoQuery
    /\ fetched' = << >>
    /\ response' = << >>
    /\ UNCHANGED <<loopVars, startVars, connVars, heapVars, now, avgVars, saneVars,
                   eventVars, decoded>>

SaveCurrentReading ==
    \E r \in LivePool, io_error \in BOOLEAN :
        Save("save_current_reading", CURRENT, r, io_error)

SaveTwoMinuteReading ==
    \E r \in LivePool, io_error \in BOOLEAN :
        Save("save_two_minute_reading", TWO_MINUTE, r, io_error)

SaveArchiveReading ==
    \E r \in StorePool, io_error \in BOOLEAN :
        /\ \/ Cardinality(RowsOf(db, ARCHIVE)) < MaxArchiveRows
           \/ KeyTaken(db, InsertRow(ARCHIVE, r))
        /\ Save("save_archive_reading", ARCHIVE, r, io_error)

Fetch(name, result, q) ==
    /\ op' = name
    /\ fetched' = result
    /\ query' = q
    /\ saved' = NoReading
    /\ raised' = FALSE
    /\ response' = << >>
    /\ UNCHANGED <<loopVars, startVars, connVars, heapVars, now, db, avgVars, saneVars,
                   eventVars, decoded>>

FetchCurrentReadings ==
    Fetch("fetch_current_readings", fetch_current_readings(db), NoQuery)

FetchTwoMinuteReadings ==
    Fetch("fetch_two_minute_readings", fetch_two_minute_readings(db), NoQuery)

FetchArchiveReadings ==
    \* the arguments fetch_archive_readings is called with
    \E q \in ([since_ts : {0, T0 \div TicksPerSec},
               max_ts : {None, Int_(T0 \div TicksPerSec), Int_((T0 \div TicksPerSec) + 1)},
               limit : {None, Int_(0), Int_(1)}]) :
        Fetch("fetch_archive_readings",
              fetch_archive_readings(db, q.since_ts, q.max_ts, q.limit), q)

\* a method that returns a JSON document
FetchAsJson(name, result) ==
    /\ op' = name
    /\ response' = result
    /\ fetched' = << >>
    /\ query' = NoQuery
    /\ saved' = NoReading
    /\ raised' = FALSE
    /\ UNCHANGED <<loopVars, startVars, connVars, heapVars, now, db, avgVars, saneVars,
                   eventVars, decoded>>

FetchCurrentReadingAsJson ==
    FetchAsJson("fetch_current_reading_as_json", fetch_current_reading_as_json(db))

FetchTwoMinuteReadingAsJson ==
    FetchAsJson("fetch_two_minute_reading_as_json", fetch_two_minute_reading_as_json(db))

GetEarliestTimestampAsJson ==
    FetchAsJson("get_earliest_timestamp_as_json", get_earliest_timestamp_as_json(db))

Next ==
    \/ SaveCurrentReading
    \/ SaveTwoMinuteReading
    \/ SaveArchiveReading
    \/ FetchCurrentReadings
    \/ FetchTwoMinuteReadings
    \/ FetchArchiveReadings
    \/ FetchCurrentReadingAsJson
    \/ FetchTwoMinuteReadingAsJson
    \/ GetEarliestTimestampAsJson

Spec == Init /\ [][Next]_vars

\* C4 as claimed: after a successful save_current_reading (the last of any
\* number of them), fetch_current_readings yields exactly one Reading, equal
\* to the one saved last.
C4_Claimed ==
    (op = "save_current_reading" /\ ~raised) =>
        /\ Len(fetch_current_readings(db)) = 1
        /\ ReadingEq(fetch_current_readings(db)[1], saved)

ArchiveTimes(d) == {x.timestamp : x \in RowsOf(d, ARCHIVE)}

Ascending(rs) ==
    \A i, j \in 1..Len(rs) : i < j => rs[i].measurementTime.n < rs[j].measurementTime.n

\* C5: save_archive_reading only inserts.  A save whose timestamp is that
\* of an ARCHIVE row already stored raises and leaves every row as it was;
\* a save with a new timestamp, when it does not raise, adds its row and
\* keeps the others, and fetch_archive_readings then yields the rows in
\* ascending order of timestamp, in whatever order they were saved.
C5_ArchiveInsertOnly ==
    [][op' = "save_archive_reading" =>
          IF saved'.measurementTime.n \in ArchiveTimes(db)
            THEN raised' /\ db' = db
            ELSE \/ raised' /\ db' = db
                 \/ /\ ~raised'
                    /\ db \subseteq db'
                    /\ RowsOf(db', CURRENT) = RowsOf(db, CURRENT)
                    /\ RowsOf(db', TWO_MINUTE) = RowsOf(db, TWO_MINUTE)
                    /\ ArchiveTimes(db') = ArchiveTimes(db) \cup {saved'.measurementTime.n}
                    /\ Cardinality(RowsOf(db', ARCHIVE)) = Cardinality(RowsOf(db, ARCHIVE)) + 1
                    /\ Ascending(fetch_archive_readings(db', 0, None, None))
                    /\ Len(fetch_archive_readings(db', 0, None, None))
                          = Cardinality(ArchiveTimes(db'))]_vars

\* a save of a second Reading with the timestamp of a stored row has
\* raised, the stored row is the first one's, and two rows are stored, the
\* later one saved first or second
C5_Witness ==
    /\ op = "save_archive_reading"
    /\ raised
    /\ saved.wifi = None
    /\ Cardinality(RowsOf(db, ARCHIVE)) = 2
    /\ \E x \in RowsOf(db, ARCHIVE) :
          /\ x.timestamp = saved.measurementTime.n
          /\ x.cols.wifi.kind = "REAL"

\* the ARCHIVE rows a query asks for
Matching(d, q) ==
    {x \in RowsOf(d, ARCHIVE) :
        /\ x.timestamp > q.since_ts * TicksPerSec
        /\ q.max_ts.kind # "none" => x.timestamp <= q.max_ts.n * TicksPerSec}

\* C7: fetch_archive_readings(since, until, limit) yields exactly the
\* ARCHIVE rows with a timestamp strictly greater than since and, when until
\* is given, at most until, in ascending order of timestamp, cut to the
\* first limit rows when limit is given; never a CURRENT or TWO_MINUTE row.
C7_FetchArchiveRange ==
    op = "fetch_archive_readings" =>
        /\ \A i \in 1..Len(fetched) :
              \E x \in Matching(db, query) :
                  /\ fetched[i].measurementTime = DateTime(x.timestamp)
                  /\ \A f \in Fields : fetched[i][f] = FromSql(x.cols[f])
        /\ Ascending(fetched)
        /\ Len(fetched) =
              IF query.limit.kind = "none" \/ query.limit.n > Cardinality(Matching(db, query))
                THEN Cardinality(Matching(db, query))
                ELSE query.limit.n
        /\ \A x \in Matching(db, query) :
              \/ \E i \in 1..Len(fetched) : fetched[i].measurementTime.n = x.timestamp
              \/ \A i \in 1..Len(fetched) : fetched[i].measurementTime.n < x.timestamp

\* a row at since itself is left out, the row half a second later is
\* yielded, a later row is cut by the limit, and a CURRENT row is stored
C7_Witness ==
    /\ op = "fetch_archive_readings"
    /\ query.since_ts = T0 \div TicksPerSec
    /\ query.limit = Int_(1)
    /\ ArchiveTimes(db) = {T0, T0 + 1}
    /\ RowsOf(db, CURRENT) # {}
    /\ Len(fetched) = 1
    /\ fetched[1].measurementTime = DateTime(T0 + 1)

\* C8 as claimed: a Reading with any of its optional fields absent, saved
\* with save_archive_reading into an empty Database and fetched with
\* fetch_archive_readings(0), comes back as exactly one Reading equal to the
\* one saved, an absent field absent and a present one with its value.
C8_Claimed ==
    (op = "save_archive_reading" /\ ~raised /\ Cardinality(db) = 1) =>
        /\ Len(fetch_archive_readings(db, 0, None, None)) = 1
        /\ ReadingEq(fetch_archive_readings(db, 0, None, None)[1], saved)
        /\ \A f \in Fields :
              fetch_archive_readings(db, 0, None, None)[1][f].kind = "none"
                  <=> saved[f].kind = "none"

RecordTypeOf(name) ==
    CASE name = "save_current_reading" -> CURRENT
      [] name = "save_two_minute_reading" -> TWO_MINUTE
      [] name = "save_archive_reading" -> ARCHIVE

\* C10 as claimed: the JSON of a Reading that was saved and fetched holds
\* every field's key and measurementTime, and null for every field that was
\* absent in the Reading saved.
C10_Claimed ==
    (op \in {"save_current_reading", "save_two_minute_reading", "save_archive_reading"}
        /\ ~raised) =>
        \A i \in 1..Len(fetch_readings(db, RecordTypeOf(op), 0, None, None)) :
            LET r == fetch_readings(db, RecordTypeOf(op), 0, None, None)[i]
            IN  r.measurementTime = saved.measurementTime =>
                    /\ DOMAIN convert_to_json(r) = AllFields
                    /\ \A f \in Fields :
                          saved[f].kind = "none" => convert_to_json(r)[f] = JNull

(***************************************************************************)
(* Service.do_loop and what it calls.  The loop is modelled a step at a    *)
(* time: the wait (FirstTime or Sleep), the collection of a reading with   *)
(* the CURRENT write (Collect), the TWO_MINUTE write and the ARCHIVE       *)
(* write.  cycle records what the steps of the cycle under way did.        *)
(***************************************************************************)
TwoMinutesSecs == 120

ArchiveGuardSecs == 5

RECURSIVE TrimAtBound(_, _)
\* the trimming that also removes an element exactly 120 s old
TrimAtBound(rs, t) ==
    IF Len(rs) > 0 /\ rs[1].measurementTime.n <= t - TwoMinutesSecs * TicksPerSec
      THEN TrimAtBound(Tail(rs), t)
      ELSE rs

RECURSIVE trim_two_minute_readings(_, _)
\* while len(l) > 0 and l[0].measurementTime < now - 120 s: l.pop(0)
trim_two_minute_readings(rs, t) ==
    IF Len(rs) > 0 /\ rs[1].measurementTime.n < t - TwoMinutesSecs * TicksPerSec
      THEN trim_two_minute_readings(Tail(rs), t)
      ELSE rs

\* int(timegm((utc_now() + 5 s).utctimetuple()) / arcint_secs) * arcint_secs,
\* in seconds; t = utc_now() in ticks.  utctimetuple() drops the fraction
\* of the second.
archive_ts(t, arcint) ==
    (((t \div TicksPerSec) + ArchiveGuardSecs) \div arcint) * arcint

\* the event of the first iteration, computed as the later ones are
FirstEventComputed(t, pollfreq, offset, arcint) ==
    compute_next_event(t, pollfreq, offset, arcint).event

\* if first_time: event = Event.POLL
FirstEvent(t, pollfreq, offset, arcint) == "POLL"

\* the session after the collection: every skipped reading resets it
SessionAfterAnySkip(s, fetch) == IF fetch = "ok" THEN s ELSE 0

\* the session after the collection: the handler of the outer try sets it
\* to None in its finally clause; a reading found insane raises nothing
SessionAfter(s, fetch) == IF fetch \in {"transport", "decode"} THEN 0 ELSE s

\* the window after the collection, a reading appended whatever is_sane says
AppendAnyway(window, r, fetch) ==
    IF fetch \in {"ok", "insane"} THEN Append(window, r) ELSE window

\* the window after the collection: appended to only under "if sane"
AppendIfSane(window, r, fetch) == IF fetch = "ok" THEN Append(window, r) ELSE window

\* a failure of save_current_reading ends the cycle
AfterCollectAbort(current) == IF current = "failed" THEN "top" ELSE "two_minute"

\* the step after the collection: the except clauses of the inner and the
\* outer try only log, and control falls through to the two minute write
AfterCollect(current) == "two_minute"

\* a failure of save_two_minute_reading ends the loop
AfterTwoMinuteEscapes(two_minute) == IF two_minute = "failed" THEN "dead" ELSE "archive"

\* the step after the two minute write: its except clause only logs
AfterTwoMinute(two_minute) == "archive"

\* the two minute write also skipped in a cycle that appended no reading
SkipTwoMinuteWithoutReading(window, fetch) == Len(window) = 0 \/ fetch # "ok"

\* the two minute average computed without the test of the length
SkipTwoMinuteNever(window, fetch) == FALSE

\* if len(two_minute_readings) == 0: the two minute write is skipped
SkipTwoMinute(window, fetch) == Len(window) = 0

\* avg_reading = compute_avg(two_minute_readings);
\* avg_reading.measurementTime = two_minute_readings[-1].measurementTime
TwoMinuteAverage(window) ==
    [compute_avg(window) EXCEPT !.measurementTime = window[Len(window)].measurementTime]

\* the archive average keeping the time compute_avg gave it
ArchiveAverageRawTime(window, t, arcint) == compute_avg(window)

\* avg_reading = compute_avg(archive_readings), stamped with archive_ts
ArchiveAverage(window, t, arcint) ==
    [compute_avg(window) EXCEPT
        !.measurementTime = DateTime(archive_ts(t, arcint) * TicksPerSec)]

\* the long window cleared at the end of every archive write, failed or not
AfterArchiveCleared(window, archive) ==
    IF archive \in {"ok", "failed"} THEN << >> ELSE window

\* archive_readings.clear() is the last statement of the try block of the
\* archive write: it is reached only when save_archive_reading returned
AfterArchive(window, archive) == IF archive = "ok" THEN << >> ELSE window

(***************************************************************************)
(* What the sensor answers.  Indoor is the indoor monitor's document; the  *)
(* loop is also given the outdoor monitor's, which has no pm50Count,       *)
(* pm10Count and ledMode keys, and a document whose boot is a text.        *)
(***************************************************************************)
Indoor == [k \in Fields |-> ToJson(PatternReading(T0, {})[k])]

LoopResponses ==
    {Indoor,
     [k \in Fields \ {"pm50Count", "pm10Count", "ledMode"} |-> Indoor[k]],
     [Indoor EXCEPT !["boot"] = ToJson(Str("3"))]}

(***************************************************************************)
(* SpecLoop: do_loop from its first iteration, on an empty database, with  *)
(* a poll interval of 60 s and an archive interval of 120 s, started on an *)
(* archive boundary, between two boundaries or a tick before one, and      *)
(* followed for MaxLoopSecs seconds.  The collection of a reading takes a  *)
(* tick, or LongFetchSecs when the sensor stalls; the other steps take no  *)
(* time.  At most MaxFaults steps of a run fail or stall.                  *)
(***************************************************************************)
MaxLoopSecs == 205

MaxFaults == 3

FaultCount(f) == f.fetch + f.write + f.stall

LongFetchSecs == 65

LoopConfigs == {[pollfreq_secs |-> 60, arcint_secs |-> 120]}

LoopStarts ==
    {T0 + 20 * TicksPerSec - 1, T0 + 30 * TicksPerSec, T0 + 80 * TicksPerSec}

FetchTicks == {1, LongFetchSecs * TicksPerSec}

\* poll-freq-offset: the offsets given to compute_next_event, and one wider
\* than the five seconds the archive step allows for an early wake
LoopOffsets == PollOffsets \cup {-10}

InitLoop ==
    /\ op = "do_loop"
    /\ now \in LoopStarts
    /\ \E c \in LoopConfigs :
          pollfreq_secs = c.pollfreq_secs /\ arcint_secs = c.arcint_secs
    /\ pollfreq_offset \in LoopOffsets
    /\ event = "none"
    /\ secs_to_event = 0
    /\ pc = "top"
    /\ first_time = TRUE
    /\ session = 0
    /\ sessions = 0
    /\ archive_readings = << >>
    /\ two_minute_readings = << >>
    /\ cycle = NoCycle
    /\ faults = NoFaults
    /\ Idle({"event", "loop"})

\* the first iteration: no call of compute_next_event, no sleep
FirstTime ==
    /\ pc = "top"
    /\ first_time
    /\ op' = "first_time"
    /\ first_time' = FALSE
    /\ event' = FirstEvent(now, pollfreq_secs, pollfreq_offset, arcint_secs)
    /\ cycle' = [NoCycle EXCEPT
                    !.event = FirstEvent(now, pollfreq_secs, pollfreq_offset, arcint_secs),
                    !.slept = "no"]
    /\ pc' = "collect"
    /\ UNCHANGED <<now, pollfreq_secs, pollfreq_offset, arcint_secs, secs_to_event,
                   session, sessions, archive_readings, two_minute_readings, faults,
                   avgVars, saneVars, jsonVars, storeVars, startVars,
                   connVars, heapVars>>

\* a later iteration: compute_next_event, then sleep(secs_to_event).
\* cycle.boundary keeps next_poll_event, the boundary the event was computed
\* for, in ticks.
Sleep ==
    /\ pc = "top"
    /\ ~first_time
    /\ op' = "sleep"
    /\ LET next == compute_next_event(now, pollfreq_secs, pollfreq_offset, arcint_secs)
           next_poll_event == NextMultiple(now, pollfreq_secs) * TicksPerSec
       IN  /\ event' = next.event
           /\ secs_to_event' = next.secs_to_event
           \* sleep(secs) raises ValueError on a negative duration
           /\ IF next.secs_to_event < 0
                THEN /\ now' = now
                     /\ pc' = "dead"
                     /\ cycle' = [NoCycle EXCEPT !.event = next.event,
                                                 !.boundary = next_poll_event,
                                                 !.slept = "raised"]
                ELSE /\ now + next.secs_to_event <= T0 + MaxLoopSecs * TicksPerSec
                     /\ now' = now + next.secs_to_event
                     /\ pc' = "collect"
                     /\ cycle' = [NoCycle EXCEPT !.event = next.event,
                                                 !.boundary = next_poll_event,
                                                 !.slept = "yes"]
    /\ UNCHANGED <<pollfreq_secs, pollfreq_offset, arcint_secs, first_time,
                   session, sessions, archive_readings, two_minute_readings, faults,
                   avgVars, saneVars, jsonVars, storeVars, startVars,
                   connVars, heapVars>>

\* trim_two_minute_readings, then the outer try: a Session if there is
\* none, collect_data, is_sane, the appends and save_current_reading, and
\* the handler that closes the session.  transport: session.get or
\* raise_for_status raises; doc: the document received otherwise; took: the
\* time collect_data takes; io_error: see save_reading; close_raises:
\* session.close() raises.
Collect ==
    /\ pc = "collect"
    /\ op' = "collect"
    /\ \E took \in FetchTicks, doc \in LoopResponses :
        LET t == now + took
            parsed == parse_response(doc, t)
            answer == IF parsed.raised THEN "decode"
                      ELSE IF is_sane(parsed.r, t).sane THEN "ok" ELSE "insane"
            trimmed == trim_two_minute_readings(two_minute_readings, now)
            opened == IF session = 0 THEN sessions + 1 ELSE session
        IN  \E transport \in BOOLEAN, io_error \in BOOLEAN, close_raises \in BOOLEAN :
            LET fetch == IF transport THEN "transport" ELSE answer
                save == save_reading(db, CURRENT, parsed.r, io_error)
                current == IF fetch # "ok" THEN "none"
                           ELSE IF save.raised THEN "failed" ELSE "ok"
                close == IF fetch \notin {"transport", "decode"} THEN "none"
                         ELSE IF close_raises THEN "failed" ELSE "ok"
                counted == [fetch |-> faults.fetch + (IF fetch # "ok" THEN 1 ELSE 0),
                            write |-> faults.write + (IF current = "failed" THEN 1 ELSE 0),
                            stall |-> faults.stall + (IF took > 1 THEN 1 ELSE 0)]
            IN  /\ transport => doc = Indoor
                /\ io_error => fetch = "ok"
                /\ close_raises => fetch \in {"transport", "decode"}
                /\ FaultCount(counted) <= MaxFaults
                /\ faults' = counted
                /\ now' = t
                /\ sessions' = opened
                /\ session' = SessionAfter(opened, fetch)
                /\ archive_readings' = AppendIfSane(archive_readings, parsed.r, fetch)
                /\ two_minute_readings' = AppendIfSane(trimmed, parsed.r, fetch)
                /\ db' = IF fetch = "ok" THEN save.db ELSE db
                /\ cycle' = [cycle EXCEPT
                                !.created = (session = 0),
                                !.fetch = fetch,
                                !.reading = IF fetch \in {"ok", "insane"} THEN parsed.r
                                            ELSE NoReading,
                                !.close = close,
                                !.current = current]
                /\ pc' = AfterCollect(current)
    /\ UNCHANGED <<first_time, eventVars, avgVars, saneVars, jsonVars,
                   saved, raised, query, fetched, startVars,
                   connVars, heapVars>>

\* "Write two minute avg reading."  compute_avg is called outside the try:
\* on an empty list its readings[0] raises IndexError, which ends do_loop.
WriteTwoMinute ==
    /\ pc = "two_minute"
    /\ op' = "write_two_minute"
    /\ \E io_error \in BOOLEAN :
        LET empty == SkipTwoMinute(two_minute_readings, cycle.fetch)
            save == save_reading(db, TWO_MINUTE, TwoMinuteAverage(two_minute_readings),
                                 io_error)
            two_minute == IF empty THEN "skipped"
                          ELSE IF Len(two_minute_readings) = 0 THEN "raised"
                          ELSE IF save.raised THEN "failed" ELSE "ok"
        IN  /\ io_error => two_minute \in {"ok", "failed"}
            /\ io_error => FaultCount(faults) < MaxFaults
            /\ faults' = [faults EXCEPT !.write = @ + (IF io_error THEN 1 ELSE 0)]
            /\ db' = IF two_minute \in {"ok", "failed"} THEN save.db ELSE db
            /\ cycle' = [cycle EXCEPT !.two_minute = two_minute]
            /\ pc' = IF two_minute = "raised" THEN "dead" ELSE AfterTwoMinute(two_minute)
    /\ UNCHANGED <<now, first_time, session, sessions, archive_readings,
                   two_minute_readings, eventVars, avgVars, saneVars, jsonVars,
                   saved, raised, query, fetched, startVars,
                   connVars, heapVars>>

\* "if archive time, also write an archive record"
WriteArchive ==
    /\ pc = "archive"
    /\ op' = "write_archive"
    /\ \E io_error \in BOOLEAN :
        LET due == event = "ARCHIVE"
            empty == Len(archive_readings) = 0
            save == save_reading(db, ARCHIVE,
                                 ArchiveAverage(archive_readings, now, arcint_secs),
                                 io_error)
            archive == IF ~due THEN "none"
                       ELSE IF empty THEN "skipped"
                       ELSE IF save.raised THEN "failed" ELSE "ok"
        IN  /\ io_error => (due /\ ~empty)
            /\ io_error => FaultCount(faults) < MaxFaults
            /\ faults' = [faults EXCEPT !.write = @ + (IF io_error THEN 1 ELSE 0)]
            /\ db' = IF archive \in {"ok", "failed"} THEN save.db ELSE db
            /\ archive_readings' = AfterArchive(archive_readings, archive)
            /\ cycle' = [cycle EXCEPT !.archive = archive]
            /\ pc' = "top"
    /\ UNCHANGED <<now, first_time, session, sessions, two_minute_readings,
                   eventVars, avgVars, saneVars, jsonVars,
                   saved, raised, query, fetched, startVars,
                   connVars, heapVars>>

NextLoop == FirstTime \/ Sleep \/ Collect \/ WriteTwoMinute \/ WriteArchive

SpecLoop == InitLoop /\ [][NextLoop]_vars

Last(window) == window[Len(window)]

\* C11: write failures are isolated within a cycle of do_loop.  A reading
\* whose CURRENT write failed is the last element of both windows, and the
\* TWO_MINUTE write and, on an ARCHIVE event, the ARCHIVE write of the cycle
\* are still attempted; after a failed TWO_MINUTE write the ARCHIVE write is
\* still attempted when it is due and the long window is not empty; no
\* failed write ends the loop or resets the session.
C11_WriteFailuresIsolated ==
    /\ cycle.current = "failed" =>
          /\ pc \in {"two_minute", "archive", "top"}
          /\ session # 0
          /\ pc = "two_minute" =>
                /\ Len(archive_readings) > 0 /\ Last(archive_readings) = cycle.reading
                /\ Len(two_minute_readings) > 0
                /\ Last(two_minute_readings) = cycle.reading
          /\ pc \in {"archive", "top"} => cycle.two_minute \in {"ok", "failed"}
          /\ (pc = "top" /\ cycle.event = "ARCHIVE") => cycle.archive \in {"ok", "failed"}
    /\ cycle.two_minute = "failed" =>
          /\ pc \in {"archive", "top"}
          /\ cycle.fetch \in {"ok", "insane"} => session # 0
          /\ (pc = "top" /\ cycle.event = "ARCHIVE") =>
                \/ cycle.archive \in {"ok", "failed"}
                \/ cycle.archive = "skipped" /\ archive_readings = << >>
    /\ cycle.archive = "failed" =>
          /\ pc = "top"
          /\ cycle.fetch \in {"ok", "insane"} => session # 0

\* all three writes of one ARCHIVE cycle fail, and the loop is back at its top
C11_Witness ==
    /\ pc = "top"
    /\ cycle.event = "ARCHIVE"
    /\ cycle.current = "failed"
    /\ cycle.two_minute = "failed"
    /\ cycle.archive = "failed"
    /\ session # 0
    /\ Len(archive_readings) = 2

Skipped(fetch) == fetch \in {"transport", "decode", "insane"}

\* C12: in a cycle whose fetch fails, whose decoding fails or whose reading
\* is found insane, the collection step adds nothing to either window (the
\* short window is only trimmed), writes no CURRENT row, takes the time of
\* one fetch, and is followed by the TWO_MINUTE step and then the ARCHIVE
\* step, which writes when an ARCHIVE event is due and the long window is
\* not empty.
C12_SkippedSample ==
    /\ [][(pc = "collect" /\ Skipped(cycle'.fetch)) =>
            /\ archive_readings' = archive_readings
            /\ two_minute_readings' = trim_two_minute_readings(two_minute_readings, now)
            /\ db' = db
            /\ cycle'.current = "none"
            /\ now' - now \in FetchTicks
            /\ pc' = "two_minute"]_vars
    /\ [][(pc \in {"two_minute", "archive"} /\ Skipped(cycle.fetch)) =>
            /\ pc = "two_minute" =>
                  /\ pc' = "archive"
                  /\ cycle'.two_minute \in
                        IF two_minute_readings = << >> THEN {"skipped"}
                        ELSE {"ok", "failed"}
            /\ pc = "archive" =>
                  /\ pc' = "top"
                  /\ cycle'.archive \in
                        IF cycle.event # "ARCHIVE" THEN {"none"}
                        ELSE IF archive_readings = << >> THEN {"skipped"}
                        ELSE {"ok", "failed"}]_vars

\* the sensor fails in an ARCHIVE cycle that follows a good one, and the
\* archive row is written from the earlier reading
C12_Witness ==
    /\ pc = "top"
    /\ cycle.event = "ARCHIVE"
    /\ cycle.fetch = "transport"
    /\ cycle.two_minute = "ok"
    /\ cycle.archive = "ok"
    /\ RowsOf(db, CURRENT) # {}

\* B, in seconds, is on the archive grid
OnArchiveGrid(B) == B % arcint_secs = 0

ArchiveRowAt(B) == \E x \in RowsOf(db, ARCHIVE) : x.timestamp = B * TicksPerSec

\* C14 as claimed: one ARCHIVE row per archive interval whatever the cycles
\* last.  At the end of a cycle of a run in which no write has failed, every
\* archive boundary that has passed while the long window held a reading
\* taken before it has its ARCHIVE row.
C14_Claimed ==
    (pc = "top" /\ faults.write = 0) =>
        \A i \in 1..Len(archive_readings) :
            \A B \in (archive_readings[i].measurementTime.n \div TicksPerSec)
                        ..(now \div TicksPerSec) :
                (/\ OnArchiveGrid(B)
                 /\ archive_readings[i].measurementTime.n < B * TicksPerSec
                 /\ B * TicksPerSec <= now) => ArchiveRowAt(B)

C19_FirstIterationPolls ==
    /\ [](cycle.slept = "no" =>
            /\ cycle.event = "POLL"
            /\ event = "POLL"
            /\ secs_to_event = 0
            /\ pc = "collect" => now \in LoopStarts
            /\ cycle.archive = "none"
            /\ RowsOf(db, ARCHIVE) = {})
    /\ [][(pc = "top" /\ pc' = "collect") =>
            IF first_time
              THEN now' = now /\ cycle'.slept = "no"
              ELSE /\ cycle'.slept = "yes"
                   /\ now' - now = compute_next_event(now, pollfreq_secs, pollfreq_offset,
                                                      arcint_secs).secs_to_event
                   /\ now' - now = secs_to_event'
                   /\ now' >= now]_vars

\* the loop started on an archive boundary and its first cycle is over: a
\* reading is in the long window and no ARCHIVE row is written
C19_Witness ==
    /\ pc = "top"
    /\ cycle.slept = "no"
    /\ now = T0 + 80 * TicksPerSec + 1
    /\ (T0 + 80 * TicksPerSec) % (arcint_secs * TicksPerSec) = 0
    /\ Len(archive_readings) = 1
    /\ RowsOf(db, CURRENT) # {}
    /\ RowsOf(db, ARCHIVE) = {}

\* C20: the session of do_loop.  The collection step creates a Session
\* exactly when there is none; after a fetch or a decoding that raised the
\* session is None, also when session.close raised; after a good or an
\* insane reading the session used is kept; the write steps and the wait
\* leave the session as it is.
C20_SessionLifecycle ==
    [][/\ pc = "collect" =>
            /\ cycle'.created = (session = 0)
            /\ sessions' = IF session = 0 THEN sessions + 1 ELSE sessions
            /\ cycle'.fetch \in {"transport", "decode"} => session' = 0
            /\ cycle'.fetch \in {"ok", "insane"} =>
                  session' = IF session = 0 THEN sessions + 1 ELSE session
       /\ pc # "collect" => (session' = session /\ sessions' = sessions)]_vars

\* a second Session is in use: the first was dropped after a failure
C20_Witness ==
    /\ pc = "top"
    /\ sessions = 2
    /\ session = 2
    /\ cycle.created
    /\ cycle.fetch = "insane"

(***************************************************************************)
(* SpecDecode: parse_response applied to a document a sensor may send: the *)
(* indoor monitor's with any of four keys left out and any of two values   *)
(* null, or a body that holds no JSON object.                              *)
(***************************************************************************)

SensorDoc(omitted, nulls) ==
    [k \in Fields \ omitted |-> IF k \in nulls THEN JNull ELSE Indoor[k]]

\* a body response.json() cannot decode, or decodes to no object
NotJson == [k \in {} |-> JNull]

InitDecode ==
    /\ op = "response"
    /\ now \in {T0, T0 + 1}
    /\ response \in {SensorDoc(omitted, nulls) :
                          omitted \in SUBSET {"pm50Count", "pm10Count", "ledMode", "serialno"},
                          nulls \in SUBSET {"wifi", "boot"}}
                         \cup {NotJson}
    /\ decoded = [raised |-> FALSE, r |-> NoReading]
    /\ Idle({"json"})

ParseSensorResponse ==
    /\ op = "response"
    /\ op' = "parse_response"
    /\ decoded' = parse_response(response, now)
    /\ UNCHANGED <<now, response, avgVars, saneVars, eventVars, storeVars, loopVars, startVars,
                   connVars, heapVars>>

NextDecode == ParseSensorResponse

SpecDecode == InitDecode /\ [][NextDecode]_vars

\* C13 as claimed: optional channels are independently optional at decode
\* time.  Decoding fails exactly when the body holds no JSON object or the
\* serialno key is missing; a document that decodes gives a Reading in
\* which every channel whose key is left out or whose value is null is
\* absent.
C13_Claimed ==
    op = "parse_response" =>
        /\ decoded.raised <=> (response = NotJson \/ "serialno" \notin DOMAIN response)
        /\ ~decoded.raised =>
              \A f \in Fields :
                  (f \notin DOMAIN response \/ response[f] = JNull) => decoded.r[f] = None

(***************************************************************************)
(* start() and Database.create.  A path is [dir, name], dir what           *)
(* os.path.dirname gives ("" for a bare file name); the file system is the *)
(* set of directories and the set of files, a file being                   *)
(* [path, table, rows]: whether it holds table Reading, and its rows.      *)
(* (The path ':memory:' is not drawn.)                                     *)
(***************************************************************************)
Exists(f, path) == \E x \in f.files : x.path = path

\* Database.create(db_file) on the file system f; os.makedirs('') raises
\* FileNotFoundError
DatabaseCreate(f, db_file) ==
    IF Exists(f, db_file)
      THEN [error |-> "DatabaseAlreadyExists", fs |-> f]
    ELSE IF db_file.dir \notin f.dirs /\ db_file.dir = ""
      THEN [error |-> "FileNotFoundError", fs |-> f]
    ELSE [error |-> "",
          fs |-> [dirs |-> f.dirs \cup {db_file.dir},
                  files |-> f.files \cup {[path |-> db_file, table |-> TRUE, rows |-> {}]}]]

\* dump_database(db_file): sqlite3.connect creates the file when it is
\* missing and its directory exists; the SELECT raises when there is no
\* table.  The current directory, dir "", exists.
DumpDatabase(f, db_file) ==
    IF \E x \in f.files : x.path = db_file /\ x.table
      THEN [error |-> "", fs |-> f]
    ELSE IF Exists(f, db_file) \/ ~(db_file.dir = "" \/ db_file.dir \in f.dirs)
      THEN [error |-> "OperationalError", fs |-> f]
    ELSE [error |-> "OperationalError",
          fs |-> [f EXCEPT !.files = @ \cup {[path |-> db_file, table |-> FALSE, rows |-> {}]}]]

\* any archive interval passes the check
AnyInterval(arcint, pollfreq) == TRUE

\* arcint_secs % pollfreq_secs == 0
IsMultiple(arcint, pollfreq) == arcint % pollfreq = 0

\* a process that went no further than its arguments
Exit(error, f) == [at |-> "exit", error |-> error, db_file |-> NoPath, served |-> FALSE, fs |-> f]

\* start(): c the options and the configuration file, f the file system.
\* parser.error prints the message and exits.
start(c, f) ==
    IF c.test /\ c.dump
      THEN Exit("At most one of --test and --dump can be specified.", f)
    ELSE IF c.test
      THEN IF c.hostname = ""
             THEN Exit("hostname must be specified in the config file", f)
             ELSE Exit("", f)
    ELSE IF c.dump
      THEN IF c.database_file = NoPath
             THEN Exit("database-file must be specified in the config file", f)
             ELSE Exit(DumpDatabase(f, c.database_file).error,
                       DumpDatabase(f, c.database_file).fs)
    ELSE IF c.hostname = ""
      THEN Exit("hostname must be specified in the config file", f)
    ELSE IF c.database_file = NoPath
      THEN Exit("database-file must be specified in the config file", f)
    ELSE IF c.pollfreq_secs = 0
      THEN Exit("ZeroDivisionError", f)
    ELSE IF ~IsMultiple(c.arcint_secs, c.pollfreq_secs)
      THEN Exit("archive-interval-secs must be a multiple of poll-frequency-secs", f)
    ELSE IF ~Exists(f, c.database_file) /\ DatabaseCreate(f, c.database_file).error # ""
      THEN Exit(DatabaseCreate(f, c.database_file).error, f)
    ELSE [at |-> "do_loop", error |-> "", db_file |-> c.database_file, served |-> TRUE,
          fs |-> IF Exists(f, c.database_file) THEN f
                 ELSE DatabaseCreate(f, c.database_file).fs]

(***************************************************************************)
(* SpecStart: start() called with any of the configurations below on a     *)
(* file system in which the database file may exist, with or without its   *)
(* table; Database.create may be called on any of the paths at any time.   *)
(***************************************************************************)
ArchiveDir == "/home/airgradientproxy/archive"

DbPaths ==
    {[dir |-> d, name |-> "airgradientproxy.sdb"] :
        d \in {"", ArchiveDir, "/home/airgradientproxy/new/archive"}}

\* the files that may be there before: a database holding one archive
\* row, or a file without the table
OldFiles(path) ==
    {{}, {[path |-> path, table |-> TRUE, rows |-> {InsertRow(ARCHIVE, PatternReading(T0, {}))}]},
     {[path |-> path, table |-> FALSE, rows |-> {}]}}

InitStart ==
    /\ op = "args"
    /\ now = T0
    /\ config \in ([test : BOOLEAN, dump : BOOLEAN, hostname : {"", "airgradient"},
                    database_file : DbPaths \cup {NoPath},
                    pollfreq_secs : {0, 30, 60}, arcint_secs : {60, 90, 300}])
    /\ fs \in ({[dirs |-> {ArchiveDir}, files |-> a \cup b] :
                   a \in OldFiles([dir |-> "", name |-> "airgradientproxy.sdb"]),
                   b \in OldFiles([dir |-> ArchiveDir, name |-> "airgradientproxy.sdb"])})
    /\ proc = [at |-> "args", error |-> "", db_file |-> NoPath, served |-> FALSE]
    /\ Idle({"start"})

Start ==
    /\ proc.at = "args"
    /\ op' = "start"
    /\ proc' = [at |-> start(config, fs).at, error |-> start(config, fs).error,
                db_file |-> start(config, fs).db_file, served |-> start(config, fs).served]
    /\ fs' = start(config, fs).fs
    /\ IF start(config, fs).at = "do_loop"
         THEN /\ pollfreq_secs' = config.pollfreq_secs
              /\ arcint_secs' = config.arcint_secs
         ELSE UNCHANGED <<pollfreq_secs, arcint_secs>>
    /\ UNCHANGED <<now, config, pollfreq_offset, event, secs_to_event,
                   avgVars, saneVars, jsonVars, storeVars, loopVars,
                   connVars, heapVars>>

\* Database.create called on a path
Create ==
    /\ \E db_file \in DbPaths :
        /\ op' = "create"
        /\ proc' = [proc EXCEPT !.error = DatabaseCreate(fs, db_file).error,
                                !.db_file = db_file]
        /\ fs' = DatabaseCreate(fs, db_file).fs
    /\ UNCHANGED <<now, config, eventVars, avgVars, saneVars, jsonVars, storeVars, loopVars,
                   connVars, heapVars>>

NextStart == Start \/ Create

SpecStart == InitStart /\ [][NextStart]_vars

\* C16: configuration errors are fatal before the loop.  start() neither
\* serves requests nor reaches do_loop when hostname or database-file is
\* missing or archive-interval-secs is no exact multiple of poll-freq-secs;
\* when it reaches do_loop the Service's archive interval is a multiple of
\* its poll interval.
C16_ConfigErrorsFatal ==
    /\ (IF config.hostname = "" \/ config.database_file = NoPath THEN TRUE
        ELSE IF config.pollfreq_secs = 0 THEN TRUE
        ELSE config.arcint_secs % config.pollfreq_secs # 0)
          => (proc.at # "do_loop" /\ ~proc.served)
    /\ proc.at = "do_loop" =>
          /\ proc.served
          /\ pollfreq_secs = config.pollfreq_secs
          /\ arcint_secs = config.arcint_secs
          /\ arcint_secs % pollfreq_secs = 0

\* an archive interval of 90 s with a poll interval of 60 s is refused
C16_Witness ==
    /\ op = "start"
    /\ proc.at = "exit"
    /\ proc.error = "archive-interval-secs must be a multiple of poll-frequency-secs"
    /\ config.arcint_secs = 90
    /\ config.pollfreq_secs = 60
    /\ ~proc.served

\* C17 as claimed: Database.create on a path that exists fails with
\* DatabaseAlreadyExists and changes nothing; on a path that does not exist
\* it creates the missing directory and a database with an empty table
\* Reading; start() that reaches do_loop has left an existing file as it
\* was and has created a missing one.
C17_Claimed ==
    [][/\ op' = "create" =>
            IF Exists(fs, proc'.db_file)
              THEN proc'.error = "DatabaseAlreadyExists" /\ fs' = fs
              ELSE /\ proc'.error = ""
                   /\ proc'.db_file.dir # "" => proc'.db_file.dir \in fs'.dirs
                   /\ [path |-> proc'.db_file, table |-> TRUE, rows |-> {}] \in fs'.files
       /\ (op' = "start" /\ proc'.at = "do_loop") =>
            IF Exists(fs, config.database_file)
              THEN fs' = fs
              ELSE [path |-> config.database_file, table |-> TRUE, rows |-> {}] \in fs'.files]_vars

(***************************************************************************)
(* SpecIntervals: compute_next_event called at any time of a span of       *)
(* MaxSpanSecs seconds, with archive intervals that are 10, 2 and 1 times  *)
(* the poll interval.                                                      *)
(***************************************************************************)

InitIntervals ==
    /\ op = "init"
    /\ now \in T0..(T0 + MaxSpanSecs * TicksPerSec)
    /\ \E c \in ({[pollfreq_secs |-> 30, arcint_secs |-> 300],
                  [pollfreq_secs |-> 60, arcint_secs |-> 120],
                  [pollfreq_secs |-> 45, arcint_secs |-> 45]}) :
          pollfreq_secs = c.pollfreq_secs /\ arcint_secs = c.arcint_secs
    /\ pollfreq_offset \in PollOffsets
    /\ event = "none"
    /\ secs_to_event = 0
    /\ Idle({"event"})

SpecIntervals == InitIntervals /\ [][NextEvent]_vars

\* C18: with an archive interval A that is a multiple of the poll interval
\* P, compute_next_event at time t takes as next poll floor(t/P)*P + P, the
\* smallest multiple of P strictly greater than t, and as next archive the
\* smallest multiple of A strictly greater than t; it returns ARCHIVE
\* exactly when the two coincide, that is when the next poll is a multiple
\* of A, and POLL otherwise; the sleep is next poll - t + offset; the next
\* poll is never after the next archive.
C18_NextEventComputed ==
    op = "compute_next_event" =>
        LET nextPoll == BoundaryAfter(now, pollfreq_secs)
            nextArchive == BoundaryAfter(now, arcint_secs)
        IN  /\ NextMultiple(now, pollfreq_secs) = nextPoll
            /\ NextMultiple(now, arcint_secs) = nextArchive
            /\ event \in {"ARCHIVE", "POLL"}
            /\ event = "ARCHIVE" <=> nextPoll = nextArchive
            /\ event = "ARCHIVE" <=> nextPoll % arcint_secs = 0
            /\ secs_to_event = nextPoll * TicksPerSec - now + pollfreq_offset * TicksPerSec
            /\ nextPoll <= nextArchive

\* half a second before an archive boundary, with an offset of 5 s: ARCHIVE
\* in five seconds and a half
C18_Witness ==
    /\ op = "compute_next_event"
    /\ pollfreq_secs = 60
    /\ arcint_secs = 120
    /\ pollfreq_offset = 5
    /\ now = 1200 * TicksPerSec - 1
    /\ event = "ARCHIVE"
    /\ secs_to_event = 5 * TicksPerSec + 1

(***************************************************************************)
(* The windows and the rows written by do_loop (SpecLoop).                 *)
(***************************************************************************)
\* row x holds the channel by channel mean of window, and the other fields
\* as the last element of window has them
RowAveragesWindow(x, window) ==
    /\ \A c \in FloatChannels :
          PresentInAll(window, c) => IsMean(FromSql(x.cols[c]), window, c)
    /\ \A f \in Fields \ FloatChannels :
          x.cols[f] = InsertRow(x.record_type, Last(window)).cols[f]

C22_Claimed ==
    [][op' = "write_archive" =>
        IF event = "ARCHIVE" /\ archive_readings # << >>
          THEN /\ archive_readings' = << >>
               /\ \E x \in db' \ db : x.record_type = ARCHIVE
          ELSE /\ db' = db
               /\ archive_readings' = archive_readings
               /\ cycle'.archive \in {"none", "skipped"}]_vars

\* C22: on an ARCHIVE cycle with a long window that is not empty the write
\* of the long window's average as a new ARCHIVE row is attempted; when it
\* returns, the row is added to the table, nothing else changes in it and
\* the long window is empty; when it raises, the table and the long window
\* are as they were.  A POLL cycle attempts no ARCHIVE write and leaves the
\* long window as it was; an ARCHIVE cycle with an empty long window writes
\* nothing.
C22_ArchiveThenClear ==
    [][op' = "write_archive" =>
        IF event = "ARCHIVE" /\ archive_readings # << >>
          THEN /\ cycle'.archive \in {"ok", "failed"}
               /\ cycle'.archive = "ok" =>
                    /\ archive_readings' = << >>
                    /\ db \subseteq db'
                    /\ Cardinality(db' \ db) = 1
                    /\ \A x \in db' \ db :
                          x.record_type = ARCHIVE /\ RowAveragesWindow(x, archive_readings)
               /\ cycle'.archive = "failed" =>
                    db' = db /\ archive_readings' = archive_readings
          ELSE /\ db' = db
               /\ archive_readings' = archive_readings
               /\ cycle'.archive = IF event = "ARCHIVE" THEN "skipped" ELSE "none"]_vars

\* an ARCHIVE cycle whose write failed ends with its two readings still in
\* the long window
C22_Witness ==
    /\ op = "write_archive"
    /\ cycle.event = "ARCHIVE"
    /\ cycle.archive = "failed"
    /\ Len(archive_readings) = 2
    /\ RowsOf(db, ARCHIVE) = {}

\* C23: every ARCHIVE row written by do_loop is on the archive grid.  With
\* s the time of the archive step in whole seconds, the timestamp of the row
\* added is the multiple b of the archive interval A with
\* b <= s + 5 < b + A, and every ARCHIVE row of the table has a timestamp
\* that is a whole multiple of A.
C23_ArchiveOnGrid ==
    /\ [](\A x \in RowsOf(db, ARCHIVE) : x.timestamp % (arcint_secs * TicksPerSec) = 0)
    /\ [][(op' = "write_archive" /\ cycle'.archive = "ok") =>
            \A x \in db' \ db :
                \E b \in {x.timestamp \div TicksPerSec} :
                    /\ x.timestamp = b * TicksPerSec
                    /\ b % arcint_secs = 0
                    /\ b <= (now \div TicksPerSec) + ArchiveGuardSecs
                    /\ (now \div TicksPerSec) + ArchiveGuardSecs < b + arcint_secs]_vars

\* an archive step that runs 4 s and a half before the boundary writes the
\* row of that boundary; no reading averaged was taken at that time
C23_Witness ==
    /\ op = "write_archive"
    /\ cycle.archive = "ok"
    /\ pollfreq_offset = -5
    /\ now % (arcint_secs * TicksPerSec) = (arcint_secs - ArchiveGuardSecs) * TicksPerSec + 1
    /\ \E x \in RowsOf(db, ARCHIVE) :
          /\ x.timestamp = now + ArchiveGuardSecs * TicksPerSec - 1
          /\ x.timestamp # cycle.reading.measurementTime.n

\* measurementTime never decreases along window
TimeOrdered(window) ==
    \A i, j \in 1..Len(window) :
        i <= j => window[i].measurementTime.n <= window[j].measurementTime.n

\* the elements of window that are not older than 120 s at time t
NotOlderThanTwoMinutes(window, t) ==
    SelectSeq(window, LAMBDA r : r.measurementTime.n >= t - TwoMinutesSecs * TicksPerSec)

\* C24: the short window is ordered by measurementTime in every state.  The
\* trimming at a wake, before the fetch, keeps exactly the elements whose
\* measurementTime is not before the time of the wake less 120 s, in their
\* order; an element exactly 120 s old is kept.  After the step the short
\* window is what was kept, followed by the reading of the cycle if one was
\* validated.
C24_ShortWindowTrimmed ==
    /\ [](TimeOrdered(two_minute_readings))
    /\ [][op' = "collect" =>
            /\ trim_two_minute_readings(two_minute_readings, now)
                 = NotOlderThanTwoMinutes(two_minute_readings, now)
            /\ two_minute_readings' =
                 IF cycle'.fetch = "ok"
                   THEN Append(NotOlderThanTwoMinutes(two_minute_readings, now),
                               cycle'.reading)
                   ELSE NotOlderThanTwoMinutes(two_minute_readings, now)]_vars

\* in a run without a stall, a wake exactly 120 s after the first reading
\* was taken: that reading is still the first of the window
C24_Witness ==
    /\ op = "collect"
    /\ faults.stall = 0
    /\ Len(two_minute_readings) >= 2
    /\ two_minute_readings[1].measurementTime.n + TwoMinutesSecs * TicksPerSec + 1 = now

(***************************************************************************)
(* The rows of the store (Spec).                                           *)
(***************************************************************************)
\* C25: in every state of the table reached by save_current_reading,
\* save_two_minute_reading and save_archive_reading calls, returning or
\* raising, there is at most one row of type CURRENT, at most one of type
\* TWO_MINUTE, and no two rows have the same record_type and timestamp.
C25_OneLiveRow ==
    /\ Cardinality(RowsOf(db, CURRENT)) <= 1
    /\ Cardinality(RowsOf(db, TWO_MINUTE)) <= 1
    /\ \A x, y \in db :
          (x.record_type = y.record_type /\ x.timestamp = y.timestamp) => x = y

\* a CURRENT row has just replaced one with another timestamp, beside a
\* TWO_MINUTE row and two ARCHIVE rows
C25_Witness ==
    /\ op = "save_current_reading"
    /\ ~raised
    /\ saved.measurementTime.n = T0 + 1
    /\ Cardinality(RowsOf(db, CURRENT)) = 1
    /\ Cardinality(RowsOf(db, TWO_MINUTE)) = 1
    /\ Cardinality(RowsOf(db, ARCHIVE)) = 2
    /\ \E x \in RowsOf(db, TWO_MINUTE) : x.timestamp = T0

\* the ARCHIVE rows of d with the smallest timestamp
EarliestArchive(d) ==
    {x \in RowsOf(d, ARCHIVE) : \A y \in RowsOf(d, ARCHIVE) : x.timestamp <= y.timestamp}

\* C28: get_earliest_timestamp_as_json returns the smallest timestamp of
\* the rows of type ARCHIVE, whatever the timestamps of the CURRENT and
\* TWO_MINUTE rows, and the empty object when there is no ARCHIVE row; it
\* leaves the table as it is.
C28_EarliestArchive ==
    /\ [](op = "get_earliest_timestamp_as_json" =>
            IF RowsOf(db, ARCHIVE) = {}
              THEN response = EmptyObject
              ELSE /\ DOMAIN response = {"timestamp"}
                   /\ \E x \in EarliestArchive(db) :
                         /\ response["timestamp"].kind = "real"
                         /\ response["timestamp"].n * TicksPerSec
                              = x.timestamp * response["timestamp"].d)
    /\ [][op' = "get_earliest_timestamp_as_json" => db' = db]_vars

\* the only ARCHIVE row is a second later than the CURRENT row
C28_Witness ==
    /\ op = "get_earliest_timestamp_as_json"
    /\ \E x \in RowsOf(db, CURRENT) : x.timestamp = T0
    /\ RowsOf(db, ARCHIVE) # {}
    /\ \A x \in RowsOf(db, ARCHIVE) : x.timestamp = T0 + TicksPerSec
    /\ response # EmptyObject

\* the Readings of the rows of one type
ReadingsOfType(d, record_type) == {create_reading_from_row(x) : x \in RowsOf(d, record_type)}

\* result holds nothing when d has no row of the type and else one Reading,
\* that of a row of the type
ZeroOrOneOfType(result, d, record_type) ==
    /\ Len(result) <= 1
    /\ Len(result) = 0 <=> RowsOf(d, record_type) = {}
    /\ \A i \in 1..Len(result) : result[i] \in ReadingsOfType(d, record_type)

\* doc is {} when d has no row of the type and else the encoding of the
\* Reading of a row of the type
JsonOfType(doc, d, record_type) ==
    IF RowsOf(d, record_type) = {}
      THEN doc = EmptyObject
      ELSE doc \in {convert_to_json(r) : r \in ReadingsOfType(d, record_type)}

\* C29: fetch_current_readings and fetch_two_minute_readings yield no
\* Reading when no row of their type is stored and else one Reading, that
\* of a row of their own type; the JSON variants return the encoding of
\* that Reading, or {} when no row of the type is stored; none of the fetch
\* methods changes the table.
C29_ZeroOrOneRow ==
    /\ [](/\ op = "fetch_current_readings" => ZeroOrOneOfType(fetched, db, CURRENT)
          /\ op = "fetch_two_minute_readings" => ZeroOrOneOfType(fetched, db, TWO_MINUTE)
          /\ op = "fetch_current_reading_as_json" => JsonOfType(response, db, CURRENT)
          /\ op = "fetch_two_minute_reading_as_json" => JsonOfType(response, db, TWO_MINUTE))
    /\ [][op' \in {"fetch_current_readings", "fetch_two_minute_readings",
                   "fetch_archive_readings", "fetch_current_reading_as_json",
                   "fetch_two_minute_reading_as_json"} => db' = db]_vars

\* the TWO_MINUTE row is returned as JSON while a CURRENT row with another
\* timestamp and an ARCHIVE row are stored
C29_Witness ==
    /\ op = "fetch_two_minute_reading_as_json"
    /\ response # EmptyObject
    /\ response["measurementTime"].n = T0 + 1
    /\ \E x \in RowsOf(db, CURRENT) : x.timestamp = T0
    /\ RowsOf(db, ARCHIVE) # {}

(***************************************************************************)
(* save_reading statement by statement.  The sqlite3 module opens a        *)
(* transaction before the first DELETE or INSERT of a connection           *)
(* (isolation_level is left at its default); the connection used as a      *)
(* context manager commits when the block ends and rolls back when it      *)
(* raises.  Until the commit the changes are in the connection's own view  *)
(* (conn.rows); db is what is committed, which is what any other           *)
(* connection reads.                                                       *)
(***************************************************************************)

\* the DELETE committed as soon as it is executed (no transaction open)
ExecuteDeleteAutocommit(d, c, io_error) ==
    IF io_error
      THEN [db |-> d, conn |-> [c EXCEPT !.at = "raised"]]
      ELSE [db |-> AfterDelete(d, c.record_type),
            conn |-> [c EXCEPT !.at = "deleted",
                               !.rows = AfterDelete(c.rows, c.record_type),
                               !.deleted = TRUE]]

\* cursor.execute('DELETE FROM Reading where record_type = ...')
ExecuteDelete(d, c, io_error) ==
    IF io_error
      THEN [db |-> d, conn |-> [c EXCEPT !.at = "raised"]]
      ELSE [db |-> d,
            conn |-> [c EXCEPT !.at = "deleted",
                               !.rows = AfterDelete(c.rows, c.record_type),
                               !.in_transaction = TRUE,
                               !.deleted = TRUE]]

\* cursor.execute(insert_reading_sql)
ExecuteInsert(d, c, io_error) ==
    IF io_error \/ KeyTaken(c.rows, InsertRow(c.record_type, c.r))
      THEN [db |-> d, conn |-> [c EXCEPT !.at = "raised"]]
      ELSE [db |-> d,
            conn |-> [c EXCEPT !.at = "inserted",
                               !.rows = c.rows \cup {InsertRow(c.record_type, c.r)},
                               !.in_transaction = TRUE]]

\* a context manager that commits what was executed also when the block raised
ConnectionExitCommits(d, c, io_error) ==
    [db |-> c.rows, raised |-> c.at = "raised"]

\* the end of the with block: commit when the block ended, rollback when it
\* raised; io_error: the commit itself raises
ConnectionExit(d, c, io_error) ==
    IF c.at = "inserted" /\ ~io_error
      THEN [db |-> c.rows, raised |-> FALSE]
      ELSE [db |-> d, raised |-> TRUE]

(***************************************************************************)
(* SpecTxn: one writer, do_loop's thread, runs save_reading calls          *)
(* statement by statement on a database created empty, while the request   *)
(* handlers fetch the CURRENT and the TWO_MINUTE reading on connections of *)
(* their own between any two statements.                                   *)
(***************************************************************************)
InitTxn ==
    /\ op = "create"
    /\ now = T0
    /\ Idle({})

TxnStep(name) ==
    /\ op' = name
    /\ query' = NoQuery
    /\ fetched' = << >>
    /\ response' = << >>
    /\ UNCHANGED <<loopVars, startVars, heapVars, now, avgVars, saneVars, eventVars,
                   decoded>>

TxnConnect ==
    /\ conn.at = "closed"
    /\ \E record_type \in {CURRENT, TWO_MINUTE, ARCHIVE} :
        \E r \in IF record_type = ARCHIVE THEN StorePool ELSE LivePool :
            /\ record_type = ARCHIVE =>
                  \/ Cardinality(RowsOf(db, ARCHIVE)) < MaxArchiveRows
                  \/ KeyTaken(db, InsertRow(ARCHIVE, r))
            \* with sqlite3.connect(self.db_file, timeout=15) as conn
            /\ conn' = [at |-> "connected", record_type |-> record_type, r |-> r,
                        rows |-> db, before |-> db, in_transaction |-> FALSE,
                        deleted |-> FALSE]
            /\ saved' = r
    /\ raised' = FALSE
    /\ TxnStep("connect")
    /\ UNCHANGED db

TxnDelete ==
    /\ conn.at = "connected"
    /\ conn.record_type \in {CURRENT, TWO_MINUTE}
    /\ \E io_error \in BOOLEAN :
          /\ db' = ExecuteDelete(db, conn, io_error).db
          /\ conn' = ExecuteDelete(db, conn, io_error).conn
    /\ TxnStep("delete")
    /\ UNCHANGED <<saved, raised>>

TxnInsert ==
    /\ \/ conn.at = "deleted"
       \/ conn.at = "connected" /\ conn.record_type = ARCHIVE
    /\ \E io_error \in BOOLEAN :
          /\ db' = ExecuteInsert(db, conn, io_error).db
          /\ conn' = ExecuteInsert(db, conn, io_error).conn
    /\ TxnStep("insert")
    /\ UNCHANGED <<saved, raised>>

TxnExit ==
    /\ conn.at \in {"inserted", "raised"}
    /\ \E io_error \in BOOLEAN :
          /\ io_error => conn.at = "inserted"
          /\ db' = ConnectionExit(db, conn, io_error).db
          /\ raised' = ConnectionExit(db, conn, io_error).raised
    /\ conn' = [conn EXCEPT !.at = "closed", !.in_transaction = FALSE]
    /\ TxnStep("exit")
    /\ UNCHANGED saved

\* a request handler's fetch: sqlite3.connect on its own, then the SELECT
TxnFetch ==
    /\ \/ /\ op' = "fetch_current_readings"
          /\ fetched' = fetch_current_readings(db)
       \/ /\ op' = "fetch_two_minute_readings"
          /\ fetched' = fetch_two_minute_readings(db)
    /\ query' = NoQuery
    /\ response' = << >>
    /\ UNCHANGED <<loopVars, startVars, connVars, heapVars, now, db, saved, raised,
                   avgVars, saneVars, eventVars, decoded>>

NextTxn == TxnConnect \/ TxnDelete \/ TxnInsert \/ TxnExit \/ TxnFetch

SpecTxn == InitTxn /\ [][NextTxn]_vars

\* the fetch method that reads the rows of a record type
FetchOf(record_type) ==
    IF record_type = CURRENT THEN "fetch_current_readings"
    ELSE IF record_type = TWO_MINUTE THEN "fetch_two_minute_readings"
    ELSE "fetch_archive_readings"

\* C26 as claimed: save_reading replaces a CURRENT or TWO_MINUTE row by a
\* delete and an insert without a transaction, so a handler that fetches
\* the reading of that type after the delete and before the insert, when a
\* row of the type was stored before the call, finds no row.
C26_Claimed ==
    (/\ conn.at = "deleted"
     /\ op = FetchOf(conn.record_type)
     /\ RowsOf(conn.before, conn.record_type) # {}) => fetched = << >>

\* C26: while a save_reading call that replaces a stored CURRENT or
\* TWO_MINUTE row is under way, whichever of its statements has been
\* executed, what is committed is unchanged and a handler that fetches the
\* reading of that type gets exactly one Reading, that of the row stored
\* before the call; after the call it gets exactly one, that of the row
\* stored then.  No fetch finds the type without a row.
C26_ReaderNeverSeesGap ==
    /\ conn.at # "closed" => db = conn.before
    /\ (/\ conn.record_type \in {CURRENT, TWO_MINUTE}
        /\ op = FetchOf(conn.record_type)
        /\ RowsOf(conn.before, conn.record_type) # {}) =>
          /\ Len(fetched) = 1
          /\ fetched[1] \in ReadingsOfType(db, conn.record_type)
          /\ conn.at # "closed" =>
                fetched[1] \in ReadingsOfType(conn.before, conn.record_type)

\* the CURRENT row has been deleted in the writer's transaction and the
\* insert has not run: a handler still gets the Reading stored before
C26_Witness ==
    /\ conn.at = "deleted"
    /\ conn.record_type = CURRENT
    /\ conn.in_transaction
    /\ RowsOf(conn.rows, CURRENT) = {}
    /\ op = "fetch_current_readings"
    /\ Len(fetched) = 1
    /\ fetched[1].measurementTime.n # conn.r.measurementTime.n

\* C27: a save_current_reading or save_two_minute_reading call that raises,
\* in its DELETE, in its INSERT after the DELETE was executed, or in its
\* commit, leaves the table as it was before the call: the row of that type
\* stored before is still stored, unchanged, and so are the rows of the
\* other types.
C27_FailedSaveKeepsRow ==
    [][(/\ op' = "exit"
        /\ raised'
        /\ conn.record_type \in {CURRENT, TWO_MINUTE}) =>
            /\ db' = conn.before
            /\ RowsOf(db', conn.record_type) = RowsOf(conn.before, conn.record_type)
            /\ \A t \in {CURRENT, TWO_MINUTE, ARCHIVE} \ {conn.record_type} :
                  RowsOf(db', t) = RowsOf(conn.before, t)]_vars

\* the INSERT of a save_two_minute_reading call raised after its DELETE had
\* run, and the TWO_MINUTE row of an earlier call is still stored beside a
\* CURRENT row
C27_Witness ==
    /\ op = "exit"
    /\ raised
    /\ conn.record_type = TWO_MINUTE
    /\ conn.deleted
    /\ RowsOf(conn.rows, TWO_MINUTE) = {}
    /\ \E x \in RowsOf(db, TWO_MINUTE) : x.timestamp # saved.measurementTime.n
    /\ RowsOf(db, CURRENT) # {}

(***************************************************************************)
(* The Reading objects of do_loop.  A Python list holds references, and    *)
(* compute_avg and do_loop assign to the attributes of the objects they    *)
(* hold, so here an object is a cell of heap.objects, a reference the      *)
(* number of its cell, and an assignment to an attribute a change of the   *)
(* cell.  A cell nothing refers to is free (NoReading).                    *)
(* heap.as_appended keeps, for each cell, the Reading as it was when it    *)
(* was appended to the windows.                                            *)
(***************************************************************************)
\* the cells: the readings of a window of MaxReadings, summed_reading,
\* avg_reading and the avg_reading of the cycle before
Cells == 1..(MaxReadings + 3)

\* the first free cell
New(objects) ==
    CHOOSE i \in DOMAIN objects :
        /\ objects[i] = NoReading
        /\ \A j \in DOMAIN objects : objects[j] = NoReading => i <= j

\* the Readings a list of references refers to
Values(objects, refs) == [i \in 1..Len(refs) |-> objects[refs[i]]]

Refs(list) == {list[i] : i \in 1..Len(list)}

\* the name bound to the object itself: no copy
CopyIsAlias(objects, ref) == [objects |-> objects, ref |-> ref]

\* copy.copy(x): a new object with the attributes of x
Copy(objects, ref) ==
    [objects |-> [objects EXCEPT ![New(objects)] = objects[ref]], ref |-> New(objects)]

\* compute_avg on objects: summed_reading = copy.copy(readings[0]); the loop
\* assigns the attributes of summed_reading; avg_reading =
\* copy.copy(summed_reading), whose channels are then divided
ComputeAvgObjects(objects, refs) ==
    LET summed_reading == Copy(objects, refs[1])
        summed == [summed_reading.objects EXCEPT
                      ![summed_reading.ref] =
                          SumLoop(summed_reading.objects[summed_reading.ref],
                                  Values(summed_reading.objects, refs), 2)]
        avg == Copy(summed, summed_reading.ref)
    IN  [objects |-> [avg.objects EXCEPT ![avg.ref] = compute_avg(Values(objects, refs))],
         ref |-> avg.ref]

\* avg_reading.measurementTime = ...
Stamp(objects, ref, t) == [objects EXCEPT ![ref].measurementTime = DateTime(t)]

\* the cells no list and no variable refers to any more are freed
Collected(objects, live) ==
    [i \in DOMAIN objects |-> IF i \in live THEN objects[i] ELSE NoReading]

RECURSIVE TrimRefs(_, _, _)
\* trim_two_minute_readings on the list of references
TrimRefs(objects, refs, t) ==
    IF Len(refs) > 0 /\ objects[refs[1]].measurementTime.n < t - TwoMinutesSecs * TicksPerSec
      THEN TrimRefs(objects, Tail(refs), t)
      ELSE refs

(***************************************************************************)
(* SpecObjects: the statements of do_loop that touch the windows, in the   *)
(* order of the loop: the trimming, a reading appended to both windows or  *)
(* none, the two minute average, the archive average when it is due (the   *)
(* long window cleared when the write returned), and a sleep of a poll     *)
(* interval, for MaxLoopSecs seconds and windows of up to MaxReadings      *)
(* readings.  op is the statement executed last.                           *)
(***************************************************************************)
ObjectPool(t) == {TestReading(t, w, Float(325, 1), 1) : w \in {Float(-71, 1), Float(-72, 1)}}

InitObjects ==
    /\ op = "do_loop"
    /\ now = T0
    /\ heap = ([objects |-> [i \in Cells |-> NoReading],
                as_appended |-> [i \in Cells |-> NoReading],
                archive_readings |-> << >>, two_minute_readings |-> << >>, avg_reading |-> 0])
    /\ \E c \in LoopConfigs :
          pollfreq_secs = c.pollfreq_secs /\ arcint_secs = c.arcint_secs
    /\ pollfreq_offset = 0
    /\ event = "none"
    /\ secs_to_event = 0
    /\ Idle({"event", "heap"})

ObjStep(name) ==
    /\ op' = name
    /\ UNCHANGED <<avgVars, saneVars, eventVars, jsonVars, storeVars, loopVars, startVars,
                   connVars>>

\* archive_readings.append(reading); two_minute_readings.append(reading),
\* or neither when the reading was skipped
ObjAppend ==
    /\ op = "trim"
    /\ now' = now + 1
    /\ \/ heap' = heap
       \/ /\ Len(heap.archive_readings) < MaxReadings
          /\ Len(heap.two_minute_readings) < MaxReadings
          /\ \E r \in ObjectPool(now + 1) :
                heap' = [heap EXCEPT
                            !.objects[New(heap.objects)] = r,
                            !.as_appended[New(heap.objects)] = r,
                            !.archive_readings = Append(@, New(heap.objects)),
                            !.two_minute_readings = Append(@, New(heap.objects))]
    /\ ObjStep("append")

\* Service.trim_two_minute_readings(two_minute_readings)
ObjTrim ==
    /\ op \in {"do_loop", "sleep"}
    /\ LET trimmed == TrimRefs(heap.objects, heap.two_minute_readings, now)
       IN  heap' = [heap EXCEPT
                       !.two_minute_readings = trimmed,
                       !.objects = Collected(@, Refs(trimmed) \cup Refs(heap.archive_readings)
                                                  \cup {heap.avg_reading})]
    /\ now' = now
    /\ ObjStep("trim")

\* avg_reading = compute_avg(two_minute_readings);
\* avg_reading.measurementTime = two_minute_readings[-1].measurementTime
ObjTwoMinute ==
    /\ op = "append"
    /\ LET avg == ComputeAvgObjects(heap.objects, heap.two_minute_readings)
           last == heap.two_minute_readings[Len(heap.two_minute_readings)]
           stamped == Stamp(avg.objects, avg.ref, avg.objects[last].measurementTime.n)
       IN  heap' = IF heap.two_minute_readings = << >> THEN heap
                   ELSE [heap EXCEPT
                            !.avg_reading = avg.ref,
                            !.objects = Collected(stamped,
                                                  Refs(heap.two_minute_readings)
                                                    \cup Refs(heap.archive_readings)
                                                    \cup {avg.ref})]
    /\ now' = now
    /\ ObjStep("two_minute")

\* avg_reading = compute_avg(archive_readings); avg_reading.measurementTime
\* = the archive timestamp; archive_readings.clear() when the write returned
ObjArchive ==
    /\ op = "two_minute"
    /\ \/ heap' = heap
       \/ /\ heap.archive_readings # << >>
          /\ \E written \in BOOLEAN :
                LET avg == ComputeAvgObjects(heap.objects, heap.archive_readings)
                    stamped == Stamp(avg.objects, avg.ref,
                                     archive_ts(now, arcint_secs) * TicksPerSec)
                    kept == IF written THEN << >> ELSE heap.archive_readings
                IN  heap' = [heap EXCEPT
                                !.avg_reading = avg.ref,
                                !.archive_readings = kept,
                                !.objects = Collected(stamped,
                                                      Refs(heap.two_minute_readings)
                                                        \cup Refs(kept) \cup {avg.ref})]
    /\ now' = now
    /\ ObjStep("archive")

\* sleep(secs_to_event)
ObjSleep ==
    /\ op = "archive"
    /\ now + pollfreq_secs * TicksPerSec <= T0 + MaxLoopSecs * TicksPerSec
    /\ now' = now + pollfreq_secs * TicksPerSec
    /\ heap' = heap
    /\ ObjStep("sleep")

NextObjects == ObjAppend \/ ObjTrim \/ ObjTwoMinute \/ ObjArchive \/ ObjSleep

SpecObjects == InitObjects /\ [][NextObjects]_vars

\* C30: compute_avg and the stamping of its result change no Reading that
\* a window holds and neither window.  In every state every Reading a window
\* refers to has the field values it had when it was appended, and the
\* average is an object no window refers to; the two minute average leaves
\* both lists as they were, and the archive average leaves the short window
\* as it was and the long window as it was or, cleared by do_loop, empty.
C30_WindowReadingsUnchanged ==
    /\ [](/\ \A ref \in Refs(heap.two_minute_readings) \cup Refs(heap.archive_readings) :
                heap.objects[ref] = heap.as_appended[ref]
          /\ heap.avg_reading \notin
                Refs(heap.two_minute_readings) \cup Refs(heap.archive_readings))
    /\ [][/\ op' = "two_minute" =>
                /\ heap'.two_minute_readings = heap.two_minute_readings
                /\ heap'.archive_readings = heap.archive_readings
          /\ op' = "archive" =>
                /\ heap'.two_minute_readings = heap.two_minute_readings
                /\ heap'.archive_readings \in {heap.archive_readings, << >>}]_vars

\* the archive average of two readings with different wifi has been
\* computed and stamped, the write failed, and both readings are still in
\* the long window with the wifi and the time they had
C30_Witness ==
    /\ op = "archive"
    /\ Len(heap.archive_readings) = 2
    /\ heap.objects[heap.archive_readings[1]].wifi = Float(-71, 1)
    /\ heap.objects[heap.archive_readings[2]].wifi = Float(-72, 1)
    /\ heap.objects[heap.avg_reading].wifi = Float(-143, 2)
    /\ heap.objects[heap.avg_reading].measurementTime.n
          # heap.objects[heap.archive_readings[2]].measurementTime.n

(***************************************************************************)
(* The windows handed to compute_avg.                                      *)
(***************************************************************************)

\* C31: do_loop calls compute_avg only on a window that holds a reading.
\* The TWO_MINUTE step computes an average exactly when the short window is
\* not empty and the ARCHIVE step of an ARCHIVE cycle exactly when the long
\* window is not empty; with an empty window the step writes nothing and
\* goes on, and the IndexError of compute_avg never ends the loop.
C31_AverageOnNonEmpty ==
    /\ [](cycle.two_minute # "raised")
    /\ [][pc = "two_minute" =>
            IF Len(two_minute_readings) = 0
              THEN cycle'.two_minute = "skipped" /\ db' = db /\ pc' = "archive"
              ELSE cycle'.two_minute \in {"ok", "failed"}]_vars
    /\ [][pc = "archive" =>
            IF event = "ARCHIVE" /\ Len(archive_readings) = 0
              THEN cycle'.archive = "skipped" /\ db' = db /\ pc' = "top"
              ELSE cycle'.archive \in {"ok", "failed"} =>
                      Len(archive_readings) > 0]_vars

\* an ARCHIVE cycle that ended with both windows empty: neither average
\* was computed
C31_Witness ==
    /\ pc = "top"
    /\ cycle.event = "ARCHIVE"
    /\ cycle.two_minute = "skipped"
    /\ cycle.archive = "skipped"
    /\ two_minute_readings = << >>
    /\ archive_readings = << >>

(***************************************************************************)
(* The order of the rules of is_sane.                                      *)
(***************************************************************************)
\* the fields of r, among group, that hold a value of another kind than
\* declared
WrongKind(r, group) ==
    {f \in group : r[f].kind # "none" /\ r[f].kind # DeclaredKind(f)}

\* the time of r is no datetime or more than 20 seconds off
StaleTime(r, t) ==
    \/ r.measurementTime.kind # "datetime"
    \/ Abs(t - r.measurementTime.n) > SaneWindowSecs * TicksPerSec

\* C32 as claimed: the reason names a rule of the first violated group in
\* the order timestamp, numeric fields, text fields.
C32_Claimed ==
    (op = "is_sane" /\ ~sane.sane /\ ~StaleTime(reading, now)) =>
        IF WrongKind(reading, FloatChannels \cup IntFields) # {}
          THEN sane.reason[1] \in WrongKind(reading, FloatChannels \cup IntFields)
          ELSE sane.reason[1] \in WrongKind(reading, StrFields)

\* C32: is_sane applies its rules in the order timestamp, kind of serialno,
\* kind of the float channels, kind of boot and bootCount, kind of ledMode,
\* firmware and model; the reason names a rule of the first group that is
\* violated, it is empty exactly when the Reading is sane, and the Reading
\* is left as it was.
C32_SaneOrder ==
    /\ [](op = "is_sane" =>
            /\ sane.sane <=> sane.reason = << >>
            /\ sane.sane <=> (~StaleTime(reading, now) /\ WrongKind(reading, Fields) = {})
            /\ ~sane.sane =>
                  IF StaleTime(reading, now)
                    THEN sane.reason[1] \in {"measurementTime not instance of datetime",
                                             "measurementTime more than 20s off"}
                  ELSE IF WrongKind(reading, {"serialno"}) # {}
                    THEN sane.reason[1] = "serialno"
                  ELSE IF WrongKind(reading, FloatChannels) # {}
                    THEN sane.reason[1] \in WrongKind(reading, FloatChannels)
                  ELSE IF WrongKind(reading, IntFields) # {}
                    THEN sane.reason[1] \in WrongKind(reading, IntFields)
                  ELSE sane.reason[1] \in WrongKind(reading, {"ledMode", "firmware", "model"}))
    /\ [][reading' = reading]_vars

\* a fresh Reading whose serialno and wifi are both integers is rejected
\* for its serialno
C32_Witness ==
    /\ op = "is_sane"
    /\ ~StaleTime(reading, now)
    /\ reading.serialno.kind = "int"
    /\ reading.wifi.kind = "int"
    /\ reading.boot.kind = "float"
    /\ sane.reason = <<"serialno", "not instance of", "str">>

(***************************************************************************)
(* The rows a save leaves alone.                                           *)
(***************************************************************************)
\* C36: no operation deletes or changes an ARCHIVE row, and a save changes
\* rows of its own record type only: save_current_reading (the collection
\* step of do_loop) keeps the ARCHIVE and TWO_MINUTE rows,
\* save_two_minute_reading (the two minute step) the ARCHIVE and CURRENT
\* rows, save_archive_reading (the archive step) the CURRENT and TWO_MINUTE
\* rows and every ARCHIVE row stored; the other operations change no row.
C36_TypesDoNotInterfere ==
    [][/\ RowsOf(db, ARCHIVE) \subseteq RowsOf(db', ARCHIVE)
       /\ op' \in {"save_current_reading", "collect"} =>
              /\ RowsOf(db', ARCHIVE) = RowsOf(db, ARCHIVE)
              /\ RowsOf(db', TWO_MINUTE) = RowsOf(db, TWO_MINUTE)
       /\ op' \in {"save_two_minute_reading", "write_two_minute"} =>
              /\ RowsOf(db', ARCHIVE) = RowsOf(db, ARCHIVE)
              /\ RowsOf(db', CURRENT) = RowsOf(db, CURRENT)
       /\ op' \in {"save_archive_reading", "write_archive"} =>
              /\ RowsOf(db', CURRENT) = RowsOf(db, CURRENT)
              /\ RowsOf(db', TWO_MINUTE) = RowsOf(db, TWO_MINUTE)
       /\ op' \notin {"save_current_reading", "collect", "save_two_minute_reading",
                       "write_two_minute", "save_archive_reading", "write_archive"} =>
              db' = db]_vars

\* a CURRENT row has replaced another one while an ARCHIVE row and the
\* TWO_MINUTE row with the timestamp of the new row are stored
C36_Witness ==
    /\ op = "save_current_reading"
    /\ ~raised
    /\ saved.measurementTime.n = T0
    /\ \E x \in RowsOf(db, CURRENT) : x.timestamp = T0
    /\ \E x \in RowsOf(db, TWO_MINUTE) : x.timestamp = T0
    /\ \E x \in RowsOf(db, ARCHIVE) : x.timestamp = T0
    /\ \E x \in RowsOf(db, ARCHIVE) : x.timestamp = T0 + TicksPerSec

(***************************************************************************)
(* The duration handed to sleep.                                           *)
(***************************************************************************)
\* C33 as claimed: for every poll offset, negative ones included, and every
\* cycle duration, the duration compute_next_event returns to do_loop is not
\* negative, the sleep does not fail and the loop goes on.
C33_Claimed ==
    /\ secs_to_event >= 0
    /\ cycle.slept # "raised"
    /\ pc # "dead"

(***************************************************************************)
(* What enters and what leaves the long window.                            *)
(***************************************************************************)
\* C35: the long window is cleared only by the archive write that stored
\* its average.  In every step of do_loop the long window stays as it was,
\* or the collection appends the reading it validated, or the archive write
\* returned, added one ARCHIVE row that averages the whole window and
\* emptied it.  A failed archive write leaves the window and the table as
\* they were, so that its readings are part of the window averaged by the
\* next archive write.  An ARCHIVE row is added only by a step that empties
\* the window it averages: a reading is averaged into at most one stored
\* row, and leaves the window only averaged into a stored row.
C35_ClearedAfterPersist ==
    [][/\ \/ archive_readings' = archive_readings
          \/ /\ op' = "collect"
             /\ cycle'.fetch = "ok"
             /\ archive_readings' = Append(archive_readings, cycle'.reading)
          \/ /\ op' = "write_archive"
             /\ cycle'.archive = "ok"
             /\ archive_readings # << >>
             /\ archive_readings' = << >>
       /\ (op' = "write_archive" /\ cycle'.archive = "failed") =>
             /\ archive_readings' = archive_readings
             /\ db' = db
       /\ (RowsOf(db', ARCHIVE) # RowsOf(db, ARCHIVE)
             \/ (archive_readings # << >> /\ archive_readings' = << >>)) =>
             /\ op' = "write_archive"
             /\ cycle'.archive = "ok"
             /\ archive_readings' = << >>
             /\ Cardinality(RowsOf(db', ARCHIVE) \ RowsOf(db, ARCHIVE)) = 1
             /\ \A x \in RowsOf(db', ARCHIVE) \ RowsOf(db, ARCHIVE) :
                   RowAveragesWindow(x, archive_readings)]_vars

\* in a run whose fetches all gave a reading at once, the POLL cycle that
\* follows the first archive boundary has appended its reading to the two
\* readings taken up to the boundary: the archive write of the boundary had
\* failed, no ARCHIVE row is stored and the window was kept
C35_Witness ==
    /\ op = "collect"
    /\ cycle.event = "POLL"
    /\ cycle.fetch = "ok"
    /\ faults.fetch = 0
    /\ faults.stall = 0
    /\ faults.write = 1
    /\ now = T0 + 140 * TicksPerSec + 1
    /\ Len(archive_readings) = 3
    /\ archive_readings[1].measurementTime.n < T0 + 80 * TicksPerSec
    /\ RowsOf(db, ARCHIVE) = {}

(***************************************************************************)
(* The rows of the table while the sensor does not answer.                 *)
(***************************************************************************)
\* the one timestamp of the rows of record_type in d, 0 without such a row
StoredTimestamp(d, record_type) ==
    IF RowsOf(d, record_type) = {} THEN 0
    ELSE (CHOOSE x \in RowsOf(d, record_type) : TRUE).timestamp

\* the parts of C37 that do not depend on the timestamp rewritten: a cycle
\* whose fetch gave no validated reading leaves the CURRENT row as it was
\* and only trims the short window; its two minute step writes nothing when
\* the short window is empty, and no step of do_loop leaves the table
\* without a CURRENT or TWO_MINUTE row that it had
OutageKeepsRows ==
    /\ (op' = "collect" /\ cycle'.fetch # "ok") =>
          /\ db' = db
          /\ two_minute_readings' = NotOlderThanTwoMinutes(two_minute_readings, now)
          /\ two_minute_readings' # << >> =>
                Last(two_minute_readings') = Last(two_minute_readings)
    /\ (op' = "write_two_minute" /\ cycle.fetch # "ok") =>
          /\ RowsOf(db', CURRENT) = RowsOf(db, CURRENT)
          /\ two_minute_readings = << >> => (db' = db /\ cycle'.two_minute = "skipped")
          /\ two_minute_readings # << >> => cycle'.two_minute \in {"ok", "failed"}
    /\ RowsOf(db, CURRENT) # {} => RowsOf(db', CURRENT) # {}
    /\ RowsOf(db, TWO_MINUTE) # {} => RowsOf(db', TWO_MINUTE) # {}

\* C37 as claimed: in a cycle whose fetch failed the CURRENT row is left as
\* it was; while the short window holds a sample the TWO_MINUTE row is
\* rewritten and the row written has the timestamp of the row it replaces;
\* once the short window is empty the TWO_MINUTE row stays as it was; no
\* step deletes a CURRENT or TWO_MINUTE row without inserting another.
C37_Claimed ==
    [][/\ OutageKeepsRows
       /\ (op' = "write_two_minute" /\ cycle.fetch # "ok"
             /\ two_minute_readings # << >> /\ RowsOf(db, TWO_MINUTE) # {}) =>
             StoredTimestamp(db', TWO_MINUTE) = StoredTimestamp(db, TWO_MINUTE)]_vars

\* C37: in a cycle whose fetch failed the CURRENT row is left as it was;
\* while the short window holds a sample the write of the TWO_MINUTE row is
\* attempted: when it returns, the one TWO_MINUTE row stored averages the
\* samples retained and has the timestamp of the newest of them, which no
\* cycle without a reading changes, and when it raises the table is as it
\* was; once the short window is empty the TWO_MINUTE row stays as it was;
\* no step deletes a CURRENT or TWO_MINUTE row without inserting another.
C37_OutageKeepsStaleRows ==
    [][/\ OutageKeepsRows
       /\ (op' = "write_two_minute" /\ cycle.fetch # "ok"
             /\ two_minute_readings # << >>) =>
             /\ cycle'.two_minute = "ok" =>
                   /\ Cardinality(RowsOf(db', TWO_MINUTE)) = 1
                   /\ StoredTimestamp(db', TWO_MINUTE)
                        = Last(two_minute_readings).measurementTime.n
                   /\ \A x \in RowsOf(db', TWO_MINUTE) :
                         RowAveragesWindow(x, two_minute_readings)
             /\ cycle'.two_minute = "failed" => db' = db]_vars

\* the third cycle in a row without a reading: the sample taken before them
\* is more than 120 s old, the short window is empty, nothing is written,
\* and the CURRENT and the TWO_MINUTE row stored are those of that sample
C37_Witness ==
    /\ op = "write_two_minute"
    /\ cycle.fetch # "ok"
    /\ cycle.two_minute = "skipped"
    /\ faults.fetch = 3
    /\ two_minute_readings = << >>
    /\ RowsOf(db, CURRENT) # {}
    /\ StoredTimestamp(db, TWO_MINUTE) = StoredTimestamp(db, CURRENT)
    /\ now > StoredTimestamp(db, CURRENT) + TwoMinutesSecs * TicksPerSec

(***************************************************************************)
(* The timestamp of an ARCHIVE row and the boundary of its cycle.          *)
(***************************************************************************)
\* C34 as claimed: in a run whose fetches all answered at once, the archive
\* write of a cycle that slept to an event ARCHIVE computed for the
\* boundary B stamps its row with B, whatever the poll offset.
C34_Claimed ==
    [][(/\ op' = "write_archive"
        /\ cycle.slept = "yes"
        /\ faults.stall = 0
        /\ cycle'.archive \in {"ok", "failed"}) =>
          /\ archive_ts(now, arcint_secs) * TicksPerSec = cycle.boundary
          /\ cycle'.archive = "ok" =>
                \A x \in db' \ db : x.timestamp = cycle.boundary]_vars

=============================================================================
